---- MODULE Spec2Model ----
(***************************************************************************)
(* OpsOS: the server-side workflow engine (src/lib/workflow-engine.ts),    *)
(* the client's event queue (src/lib/offline/event-queue.ts) and the sync  *)
(* engine's push and pull (src/lib/offline/actions.ts).                    *)
(*                                                                         *)
(* The specifications share the variables:                                 *)
(*   Spec      the engine, one whole handler per step                      *)
(*   SpecConc  the engine, one database call per step, several callers     *)
(*   SpecPush  the client's event queue and push loop                      *)
(*   SpecPull  the client's local actions and the pull of its mirror       *)
(*   SpecSync  local actions, pulls and push rounds of a client online     *)
(*   SpecBoot  the push loop across page loads                             *)
(*   SpecEta   the ETA calculator (src/lib/eta.ts) over the engine's tasks *)
(*   SpecInst  createOrder, one pass of instantiateWorkflow per step       *)
(*   SpecLocal the offline actions on the client's task tables             *)
(*   SpecReplay the same with their events pushed to the engine            *)
(*   SpecTaskSync the tasks table alone, with fair pull and push           *)
(*   SpecPullTables pulls of tasks, subtasks and inventory items           *)
(*   SpecPullSteps pullActiveTasks one await per step                      *)
(*   SpecOverlap two calls of pushEvents in one page                       *)
(*   SpecRestart the queue and the push loop across browser restarts       *)
(*   SpecGraph calculateOrderETA on every dependency graph of three tasks  *)
(*   SpecEngine startSyncEngine, stopSyncEngine and the engine's timers    *)
(*   SpecLive  the push loop across page loads, with fairness              *)
(***************************************************************************)
EXTENDS Integers, Sequences, FiniteSets, Bags, TLC

\* ------------------------------------------------------------------ bounds

\* Task instances the database may hold (createOrder is not taken beyond it).
MaxTasks == 2
\* The last reading of the clock (new Date()).
MaxClock == 2
\* Events one client session enqueues.
MaxEvents == 3
\* Server-side revisions of one operational entity seen by the client.
MaxVersion == 2
\* Task instances of the order whose creation is followed pass by pass.
MaxInstTasks == 3
\* Task instances on the server when the client's events are pushed to it.
MaxServerTasks == 4
\* Events in the queue whose way to 'synced' or 'conflict' is followed.
MaxLiveEvents == 1

\* --------------------------------------------------------------- constants

\* A nullable timestamp or id that is not set (startedAt, completedAt, stationId).
NULL == 0
\* markEventFailed: a failure at this retryCount or above escalates to 'conflict'.
RetryThreshold == 5
\* getHistoricalDurations: the samples of a task definition it takes to use
\* their average as the estimate.
MinSamples == 5
\* calculateOrderETA: below this number of task instances the confidence is 'low'.
LowConfidenceBelow == 3

Users == {"u1", "u2"}
NoUser == "none"

\* ------------------------------------------------------------ definitions

\* Active stations in findMany order: [id, taskTypes, capacity].
Stations ==
  << [id |-> 1, taskTypes |-> {"forno"}, capacity |-> 3],
     [id |-> 2, taskTypes |-> {"preparazione", "wok"}, capacity |-> 3],
     [id |-> 3, taskTypes |-> {"packaging"}, capacity |-> 2],
     [id |-> 4, taskTypes |-> {"griglia"}, capacity |-> 1],
     [id |-> 5, taskTypes |-> {"fritti"}, capacity |-> 1],
     [id |-> 6, taskTypes |-> {"dolci"}, capacity |-> 1] >>

\* The definitions of the workflow templates, phases flattened in iteration
\* order: the head of the pizza workflow (dough -> topping), the head of the
\* wok workflow (two parallel preparations feeding the wok), a one-task
\* workflow whose station type no active station accepts, and a definition
\* stored by createWorkflow whose two tasks depend on each other; for the ETA
\* calculator the whole pizza chain (3 -> 2 -> 8 -> 1 minutes) and three tasks
\* A, B (after A) and C, each on a station of its own with capacity 1.
SubDough == << [id |-> "sub_take_dough", optional |-> FALSE] >>

TemplateDefs ==
  [ pizza |->
      << [id |-> "task_dough", station_type |-> "forno", estimated_minutes |-> 3,
          depends_on |-> << >>, subtasks |-> SubDough],
         [id |-> "task_topping", station_type |-> "forno", estimated_minutes |-> 2,
          depends_on |-> << "task_dough" >>, subtasks |-> << >>] >>,
    wok |->
      << [id |-> "task_cut_veggies", station_type |-> "preparazione", estimated_minutes |-> 4,
          depends_on |-> << >>, subtasks |-> << >>],
         [id |-> "task_prep_protein", station_type |-> "preparazione", estimated_minutes |-> 3,
          depends_on |-> << >>, subtasks |-> << >>],
         [id |-> "task_wok", station_type |-> "wok", estimated_minutes |-> 5,
          depends_on |-> << "task_cut_veggies", "task_prep_protein" >>, subtasks |-> << >>] >>,
    drink |->
      << [id |-> "task_bevanda", station_type |-> "bar", estimated_minutes |-> 1,
          depends_on |-> << >>, subtasks |-> << >>] >>,
    margherita |->
      << [id |-> "task_dough", station_type |-> "forno", estimated_minutes |-> 3,
          depends_on |-> << >>, subtasks |-> << >>],
         [id |-> "task_topping", station_type |-> "forno", estimated_minutes |-> 2,
          depends_on |-> << "task_dough" >>, subtasks |-> << >>],
         [id |-> "task_bake", station_type |-> "forno", estimated_minutes |-> 8,
          depends_on |-> << "task_topping" >>, subtasks |-> << >>],
         [id |-> "task_finish", station_type |-> "packaging", estimated_minutes |-> 1,
          depends_on |-> << "task_bake" >>, subtasks |-> << >>] >>,
    abc |->
      << [id |-> "task_a", station_type |-> "griglia", estimated_minutes |-> 5,
          depends_on |-> << >>, subtasks |-> << >>],
         [id |-> "task_b", station_type |-> "fritti", estimated_minutes |-> 3,
          depends_on |-> << "task_a" >>, subtasks |-> << >>],
         [id |-> "task_c", station_type |-> "dolci", estimated_minutes |-> 4,
          depends_on |-> << >>, subtasks |-> << >>] >>,
    fanin |->
      << [id |-> "task_p", station_type |-> "griglia", estimated_minutes |-> 5,
          depends_on |-> << >>, subtasks |-> << >>],
         [id |-> "task_q", station_type |-> "fritti", estimated_minutes |-> 6,
          depends_on |-> << >>, subtasks |-> << >>],
         [id |-> "task_j", station_type |-> "dolci", estimated_minutes |-> 2,
          depends_on |-> << "task_p", "task_q" >>, subtasks |-> << >>] >>,
    cyclic |->
      << [id |-> "task_a", station_type |-> "forno", estimated_minutes |-> 1,
          depends_on |-> << "task_b" >>, subtasks |-> << >>],
         [id |-> "task_b", station_type |-> "forno", estimated_minutes |-> 1,
          depends_on |-> << "task_a" >>, subtasks |-> << >>] >> ]

\* The item lists createOrder is called with: menuItem.workflowTemplateId of
\* each item, "none" for a menu item without a workflow.
ItemLists ==
  { << "pizza" >>, << "wok" >>, << "drink", "drink" >>, << "pizza", "drink" >>, << "none", "pizza" >>,
    << "cyclic" >> }

Range(s) == { s[i] : i \in DOMAIN s }

\* --------------------------------------------------------------- variables

VARIABLES
  \* server database
  orders,         \* order id -> [status, items]
  tasks,          \* task instance id -> the taskInstance row (with its subtasks)
  taskDurations,  \* the bag of taskDuration rows
  clock,          \* new Date()
  \* server calls in progress (SpecConc)
  calls,            \* caller -> the engine call it is in, and what that call has read
  completedWrites,  \* the bag of task ids whose completion was written
  \* client event queue and push loop (SpecPush)
  syncEvents,       \* event id -> [sequence, status, retryCount, lastError] (db.syncEvents)
  sequenceCounter,  \* event-queue.ts sequenceCounter
  online,           \* navigator.onLine
  isSyncing,        \* actions.ts isSyncing
  push,             \* where the running pushEvents stands
  applied,          \* ids of the events the server has applied
  \* client mirror and pull (SpecPull)
  mirror,           \* the local database: kind -> id -> record
  server,           \* the server's active records: kind -> id -> revision, 0 for none
  \* ETA calculator (SpecEta)
  etas,             \* order id -> what calculateOrderETA last returned for it
  \* createOrder, one pass of instantiateWorkflow per step (SpecInst)
  creating,         \* where the running createOrder stands
  \* the client's tables (SpecLocal)
  localDb,          \* db.orders and db.tasks, each task with its db.subtasks rows
  \* pullActiveTasks, one await per step (SpecPullSteps)
  pulling,          \* where the running pullActiveTasks stands
  \* the calls of pushEvents of one page (SpecOverlap)
  loops,            \* call -> where that call of pushEvents stands
  \* the sync engine's timers and listeners (SpecEngine)
  syncEngine        \* what startSyncEngine registered and stopSyncEngine left

engineVars == << orders, tasks, taskDurations, clock >>
concVars == << calls, completedWrites >>
pushVars == << syncEvents, sequenceCounter, online, isSyncing, push, applied >>
pullVars == << mirror, server >>
etaVars == << etas >>
instVars == << creating >>
localVars == << localDb >>
stepVars == << pulling, loops, syncEngine >>
vars == << engineVars, concVars, pushVars, pullVars, etaVars, instVars, localVars, stepVars >>
otherVars == << concVars, pushVars, pullVars >>

\* ------------------------------------------------------- workflow engine

\* stationByType.get(type) || null: a later station overwrites an earlier one.
StationByType(type) ==
  LET accepting == { i \in DOMAIN Stations : type \in Stations[i].taskTypes }
  IN  IF accepting = {} THEN NULL
      ELSE Stations[CHOOSE i \in accepting : \A j \in accepting : j <= i].id

\* defToInstanceId.get(depId) after the first pass created instance base + i
\* for the i-th task of the definition (undefined, here NULL, for an unknown id).
DefToInstanceId(defs, base, depId) ==
  LET hits == { i \in DOMAIN defs : defs[i].id = depId }
  IN  IF hits = {} THEN NULL
      ELSE base + (CHOOSE i \in hits : \A j \in hits : j <= i)

\* task.depends_on.map(depId => defToInstanceId.get(depId)).filter(Boolean)
ResolveDependsOn(defs, base, depends_on) ==
  SelectSeq([k \in DOMAIN depends_on |-> DefToInstanceId(defs, base, depends_on[k])],
            LAMBDA id : id # NULL)

\* The subtaskInstance rows created for a task definition.
NewSubtasks(subDefs) ==
  [k \in DOMAIN subDefs |->
     [subtaskDefId |-> subDefs[k].id, isCompleted |-> FALSE,
      completedAt |-> NULL, completedById |-> NoUser]]

\* The taskInstance row the first pass creates. The estimate is that of the
\* definition: getHistoricalDurations has an average only for a task
\* definition with MinSamples samples, more than the database here ever holds.
NewTask(orderId, orderItemId, def) ==
  [orderId |-> orderId, orderItemId |-> orderItemId, taskDefId |-> def.id,
   stationId |-> StationByType(def.station_type), status |-> "pending",
   dependsOn |-> << >>, estimatedMinutes |-> def.estimated_minutes,
   assignedToId |-> NoUser, startedAt |-> NULL, completedAt |-> NULL,
   completedById |-> NoUser, subtasks |-> NewSubtasks(def.subtasks)]

\* First pass of instantiateWorkflow: one instance per task of the definition.
FirstPass(ts, orderId, orderItemId, defs) ==
  ts \o [i \in DOMAIN defs |-> NewTask(orderId, orderItemId, defs[i])]

\* A resolution in the first pass alone: of the listed dependencies, those
\* whose instance exists when the task's own instance is created.
SinglePass(ts, base, defs) ==
  [id \in DOMAIN ts |->
     IF id > base /\ id <= base + Len(defs) /\ Len(defs[id - base].depends_on) > 0
     THEN [ts[id] EXCEPT !.dependsOn =
             SelectSeq(ResolveDependsOn(defs, base, defs[id - base].depends_on),
                       LAMBDA d : d < id)]
     ELSE ts[id]]

\* Second pass: dependsOn of the instances whose definition has depends_on.
SecondPass(ts, base, defs) ==
  [id \in DOMAIN ts |->
     IF id > base /\ id <= base + Len(defs) /\ Len(defs[id - base].depends_on) > 0
     THEN [ts[id] EXCEPT !.dependsOn = ResolveDependsOn(defs, base, defs[id - base].depends_on)]
     ELSE ts[id]]

\* A count that also takes the dependencies in progress.
DepsAllStarted(ts, deps) ==
  Cardinality({ d \in Range(deps) :
                  d \in DOMAIN ts /\ ts[d].status \in {"in_progress", "done"} }) = Len(deps)

\* prisma.taskInstance.count({ id: { in: deps }, status: 'done' }) === deps.length
DepsAllDone(ts, deps) ==
  Cardinality({ d \in Range(deps) : d \in DOMAIN ts /\ ts[d].status = "done" }) = Len(deps)

\* The body of activateReadyTasks' loop for one task of the pending list.
ActivateOne(ts, id) ==
  IF Len(ts[id].dependsOn) = 0 \/ DepsAllDone(ts, ts[id].dependsOn)
  THEN [ts EXCEPT ![id].status = "queued"]
  ELSE ts

\* findMany({ orderId, status: 'pending' }), as a list in id order.
PendingTasks(ts, orderId) ==
  SelectSeq([i \in DOMAIN ts |-> i],
            LAMBDA id : ts[id].orderId = orderId /\ ts[id].status = "pending")

RECURSIVE ActivateLoop(_, _)
ActivateLoop(ts, pending) ==
  IF pending = << >> THEN ts
  ELSE ActivateLoop(ActivateOne(ts, Head(pending)), Tail(pending))

ActivateReadyTasks(ts, orderId) == ActivateLoop(ts, PendingTasks(ts, orderId))

\* instantiateWorkflow for one order item.
InstantiateWorkflow(ts, orderId, orderItemId, template) ==
  LET defs == TemplateDefs[template]
      base == Len(ts)
  IN  ActivateReadyTasks(
        SecondPass(FirstPass(ts, orderId, orderItemId, defs), base, defs), orderId)

\* createOrder's loop over the order items: those with a workflow template.
RECURSIVE InstantiateItems(_, _, _, _)
InstantiateItems(ts, orderId, items, k) ==
  IF k > Len(items) THEN ts
  ELSE InstantiateItems(
         IF items[k] # "none" THEN InstantiateWorkflow(ts, orderId, k, items[k]) ELSE ts,
         orderId, items, k + 1)

\* Task instances createOrder would create for an item list.
RECURSIVE TaskCount(_)
TaskCount(items) ==
  IF items = << >> THEN 0
  ELSE (IF Head(items) = "none" THEN 0 ELSE Len(TemplateDefs[Head(items)]))
       + TaskCount(Tail(items))

\* A start check that also lets a task in progress through.
StartableOrActive(status) == status \in {"queued", "in_progress"}

\* startTask's status check: task.status !== 'queued' throws.
Startable(status) == status = "queued"

\* completeTask's status check: ['queued', 'in_progress'].includes(task.status).
Completable(status) == status \in {"queued", "in_progress"}

\* A start that writes the task back as 'pending'.
StartUpdatePending(task, userId, now) ==
  [task EXCEPT !.status = "pending", !.assignedToId = userId, !.startedAt = now]

\* startTask's update.
StartUpdate(task, userId, now) ==
  [task EXCEPT !.status = "in_progress", !.assignedToId = userId, !.startedAt = now]

\* subtaskInstance.updateMany({ taskInstanceId, isCompleted: false }, ...)
CompleteSubtasks(subs, userId, now) ==
  [k \in DOMAIN subs |->
     IF subs[k].isCompleted THEN subs[k]
     ELSE [subs[k] EXCEPT !.isCompleted = TRUE, !.completedAt = now, !.completedById = userId]]

\* A duration row recorded whether or not the task had startedAt.
DurationRowsAlways(taskId, task, now) ==
  { [taskId |-> taskId, taskDefId |-> task.taskDefId, stationId |-> task.stationId,
     durationSeconds |-> IF task.startedAt # NULL THEN now - task.startedAt ELSE 0] }

\* The taskDuration row completeTask records: only for a task that had startedAt.
DurationRows(taskId, task, now) ==
  IF task.startedAt # NULL
  THEN { [taskId |-> taskId, taskDefId |-> task.taskDefId, stationId |-> task.stationId,
           durationSeconds |-> now - task.startedAt] }
  ELSE {}

\* completeTask's update of the task row (task is the row as it was read).
CompleteUpdate(row, task, userId, now) ==
  [row EXCEPT !.status = "done", !.completedAt = now, !.completedById = userId,
              !.startedAt = IF task.startedAt # NULL THEN task.startedAt ELSE now]

OrderTasks(ts, orderId) == { id \in DOMAIN ts : ts[id].orderId = orderId }

\* An allDone that one finished task satisfies.
AnyDone(ts, orderId) ==
  \E id \in OrderTasks(ts, orderId) : ts[id].status \in {"done", "cancelled"}

\* checkOrderCompletion's allDone.
AllDone(ts, orderId) ==
  \A id \in OrderTasks(ts, orderId) : ts[id].status \in {"done", "cancelled"}

\* checkOrderCompletion's writes to the order.
CheckOrderCompletion(ts, os, orderId) ==
  IF AllDone(ts, orderId)
  THEN [os EXCEPT ![orderId].status = "ready"]
  ELSE IF \E id \in OrderTasks(ts, orderId) : ts[id].status = "in_progress"
       THEN [os EXCEPT ![orderId].status = "preparing"]
       ELSE os

\* What an engine call that found no task answers with.
NoTask == [status |-> "absent"]


\* POST /api/orders: the order row, instantiateWorkflow for each item with a
\* workflow template, then status 'preparing'.
createOrder(items) ==
  /\ Len(tasks) + TaskCount(items) <= MaxTasks
  /\ LET orderId == Len(orders) + 1
     IN  /\ orders' = Append(orders, [status |-> "preparing", items |-> items])
         /\ tasks' = InstantiateItems(tasks, orderId, items, 1)
  /\ UNCHANGED << taskDurations, clock, otherVars, etaVars, instVars, localVars, stepVars >>

\* activateReadyTasks(tenantId, orderId), called on its own.
activateReadyTasks(orderId) ==
  /\ orderId \in DOMAIN orders
  /\ tasks' = ActivateReadyTasks(tasks, orderId)
  /\ UNCHANGED << orders, taskDurations, clock, otherVars, etaVars, instVars, localVars, stepVars >>

\* What startTask answers: it returns, or throws before any write.
startTaskResult(ts, taskId) ==
  IF taskId \notin DOMAIN ts THEN "Task non trovato"
  ELSE IF ~Startable(ts[taskId].status) THEN "Task non avviabile"
  ELSE "ok"

\* What completeTask answers: it returns, or throws before any write.
completeTaskResult(ts, taskId) ==
  IF taskId \notin DOMAIN ts THEN "Task non trovato"
  ELSE IF ~Completable(ts[taskId].status) THEN "Task non completabile"
  ELSE "ok"

\* startTask(taskId, userId, tenantId)
startTask(taskId, userId) ==
  LET ok == startTaskResult(tasks, taskId) = "ok"
  IN  /\ tasks' = IF ok THEN [tasks EXCEPT ![taskId] = StartUpdate(@, userId, clock)]
                  ELSE tasks
      /\ UNCHANGED << orders, taskDurations, clock, otherVars, etaVars, instVars, localVars, stepVars >>

\* completeTask(taskId, userId, tenantId)
completeTask(taskId, userId) ==
  LET ok == completeTaskResult(tasks, taskId) = "ok"
      pre == IF ok THEN tasks[taskId] ELSE NoTask
      ts1 == [tasks EXCEPT ![taskId].subtasks = CompleteSubtasks(@, userId, clock)]
      ts2 == [ts1 EXCEPT ![taskId] = CompleteUpdate(@, pre, userId, clock)]
      ts3 == ActivateReadyTasks(ts2, pre.orderId)
  IN  /\ tasks' = IF ok THEN ts3 ELSE tasks
      /\ taskDurations' = IF ok THEN taskDurations (+) SetToBag(DurationRows(taskId, pre, clock))
                          ELSE taskDurations
      /\ orders' = IF ok THEN CheckOrderCompletion(ts3, orders, pre.orderId) ELSE orders
      /\ UNCHANGED << clock, otherVars, etaVars, instVars, localVars, stepVars >>

\* completeSubtask(taskId, subtaskId, userId, tenantId); subtaskId is the
\* subtask's place among the task's subtasks.
completeSubtask(taskId, subtaskId, userId) ==
  LET found == taskId \in DOMAIN tasks /\ subtaskId \in DOMAIN tasks[taskId].subtasks
      write == found /\ ~tasks[taskId].subtasks[subtaskId].isCompleted
  IN  /\ tasks' = IF write
                  THEN [tasks EXCEPT ![taskId].subtasks[subtaskId] =
                          [@ EXCEPT !.isCompleted = TRUE, !.completedAt = clock,
                                    !.completedById = userId]]
                  ELSE tasks
      /\ UNCHANGED << orders, taskDurations, clock, otherVars, etaVars, instVars, localVars, stepVars >>

\* A task instance is cancelled (status 'cancelled' of the TaskStatus enum; the
\* engine reads it and no handler of these files writes it); activation is then
\* run for the order, as after every transition to a terminal status.
cancelTask(taskId) ==
  /\ taskId \in DOMAIN tasks
  /\ tasks[taskId].status \in {"pending", "queued", "in_progress"}
  /\ tasks' = ActivateReadyTasks([tasks EXCEPT ![taskId].status = "cancelled"],
                                 tasks[taskId].orderId)
  /\ UNCHANGED << orders, taskDurations, clock, otherVars, etaVars, instVars, localVars, stepVars >>

\* Time passes.
Tick ==
  /\ clock < MaxClock
  /\ clock' = clock + 1
  /\ UNCHANGED << orders, tasks, taskDurations, otherVars, etaVars, instVars, localVars, stepVars >>

\* --------------------------------------- the engine, one database call a step

\* No call in progress.
Idle ==
  [pc |-> "idle", taskId |-> NULL, task |-> NoTask, now |-> NULL,
   pending |-> << >>, allDone |-> FALSE]

\* The rows of findMany({ orderId, status: 'pending' }) with the dependsOn read.
PendingRows(ts, orderId) ==
  [k \in DOMAIN PendingTasks(ts, orderId) |->
     [id |-> PendingTasks(ts, orderId)[k], dependsOn |-> ts[PendingTasks(ts, orderId)[k]].dependsOn]]

\* Where activateReadyTasks' loop stands with the rows left: at the next row,
\* or past the loop, at checkOrderCompletion.
LoopPc(rows) == IF rows = << >> THEN "check_read" ELSE "activate_row"

\* startTask: findFirst and the status check.
StartTaskRead(u, taskId) ==
  /\ calls[u].pc = "idle"
  /\ calls' = [calls EXCEPT ![u] =
       IF startTaskResult(tasks, taskId) = "ok"
       THEN [Idle EXCEPT !.pc = "start_update", !.taskId = taskId, !.task = tasks[taskId]]
       ELSE Idle]
  /\ UNCHANGED << engineVars, completedWrites, pushVars, pullVars, etaVars, instVars, localVars, stepVars >>

\* startTask: taskInstance.update.
StartTaskUpdate(u) ==
  /\ calls[u].pc = "start_update"
  /\ tasks' = [tasks EXCEPT ![calls[u].taskId] = StartUpdate(@, u, clock)]
  /\ calls' = [calls EXCEPT ![u] = Idle]
  /\ UNCHANGED << orders, taskDurations, clock, completedWrites, pushVars, pullVars, etaVars, instVars, localVars, stepVars >>

\* completeTask: findFirst with the subtasks, and the status check.
CompleteTaskRead(u, taskId) ==
  /\ calls[u].pc = "idle"
  /\ calls' = [calls EXCEPT ![u] =
       IF completeTaskResult(tasks, taskId) = "ok"
       THEN [Idle EXCEPT !.pc = "subtasks", !.taskId = taskId, !.task = tasks[taskId]]
       ELSE Idle]
  /\ UNCHANGED << engineVars, completedWrites, pushVars, pullVars, etaVars, instVars, localVars, stepVars >>

\* completeTask: subtaskInstance.updateMany when the read found a subtask
\* not completed; then now = new Date().
CompleteTaskSubtasks(u) ==
  /\ calls[u].pc = "subtasks"
  /\ tasks' = IF \E k \in DOMAIN calls[u].task.subtasks : ~calls[u].task.subtasks[k].isCompleted
              THEN [tasks EXCEPT ![calls[u].taskId].subtasks = CompleteSubtasks(@, u, clock)]
              ELSE tasks
  /\ calls' = [calls EXCEPT ![u].pc = "duration", ![u].now = clock]
  /\ UNCHANGED << orders, taskDurations, clock, completedWrites, pushVars, pullVars, etaVars, instVars, localVars, stepVars >>

\* completeTask: taskDuration.create when the task read had startedAt.
CompleteTaskDuration(u) ==
  /\ calls[u].pc = "duration"
  /\ taskDurations' = taskDurations (+)
       SetToBag(DurationRows(calls[u].taskId, calls[u].task, calls[u].now))
  /\ calls' = [calls EXCEPT ![u].pc = "update"]
  /\ UNCHANGED << orders, tasks, clock, completedWrites, pushVars, pullVars, etaVars, instVars, localVars, stepVars >>

\* completeTask: taskInstance.update to 'done'.
CompleteTaskUpdate(u) ==
  /\ calls[u].pc = "update"
  /\ tasks' = [tasks EXCEPT ![calls[u].taskId] =
                 CompleteUpdate(@, calls[u].task, u, calls[u].now)]
  /\ completedWrites' = completedWrites (+) SetToBag({calls[u].taskId})
  /\ calls' = [calls EXCEPT ![u].pc = "activate_read"]
  /\ UNCHANGED << orders, taskDurations, clock, pushVars, pullVars, etaVars, instVars, localVars, stepVars >>

\* activateReadyTasks: findMany of the order's pending tasks.
ActivateRead(u) ==
  /\ calls[u].pc = "activate_read"
  /\ LET rows == PendingRows(tasks, calls[u].task.orderId)
     IN  calls' = [calls EXCEPT ![u].pending = rows, ![u].pc = LoopPc(rows)]
  /\ UNCHANGED << engineVars, completedWrites, pushVars, pullVars, etaVars, instVars, localVars, stepVars >>

\* activateReadyTasks: one row of the loop: the update of a row without
\* dependencies, or the count of the done dependencies.
ActivateRow(u) ==
  /\ calls[u].pc = "activate_row"
  /\ LET row == Head(calls[u].pending)
         rest == Tail(calls[u].pending)
     IN  IF Len(row.dependsOn) = 0
         THEN /\ tasks' = [tasks EXCEPT ![row.id].status = "queued"]
              /\ calls' = [calls EXCEPT ![u].pending = rest, ![u].pc = LoopPc(rest)]
         ELSE /\ tasks' = tasks
              /\ calls' = IF DepsAllDone(tasks, row.dependsOn)
                          THEN [calls EXCEPT ![u].pc = "activate_update"]
                          ELSE [calls EXCEPT ![u].pending = rest, ![u].pc = LoopPc(rest)]
  /\ UNCHANGED << orders, taskDurations, clock, completedWrites, pushVars, pullVars, etaVars, instVars, localVars, stepVars >>

\* activateReadyTasks: the update to 'queued' after the count matched.
ActivateUpdate(u) ==
  /\ calls[u].pc = "activate_update"
  /\ LET row == Head(calls[u].pending)
         rest == Tail(calls[u].pending)
     IN  /\ tasks' = [tasks EXCEPT ![row.id].status = "queued"]
         /\ calls' = [calls EXCEPT ![u].pending = rest, ![u].pc = LoopPc(rest)]
  /\ UNCHANGED << orders, taskDurations, clock, completedWrites, pushVars, pullVars, etaVars, instVars, localVars, stepVars >>

\* checkOrderCompletion: findMany of the order's task statuses.
CheckRead(u) ==
  /\ calls[u].pc = "check_read"
  /\ LET o == calls[u].task.orderId
     IN  calls' = [calls EXCEPT ![u] =
           IF AllDone(tasks, o) THEN [@ EXCEPT !.pc = "check_update", !.allDone = TRUE]
           ELSE IF \E id \in OrderTasks(tasks, o) : tasks[id].status = "in_progress"
                THEN [@ EXCEPT !.pc = "check_update", !.allDone = FALSE]
                ELSE Idle]
  /\ UNCHANGED << engineVars, completedWrites, pushVars, pullVars, etaVars, instVars, localVars, stepVars >>

\* checkOrderCompletion: order.update to 'ready', or to 'preparing'.
CheckUpdate(u) ==
  /\ calls[u].pc = "check_update"
  /\ orders' = [orders EXCEPT ![calls[u].task.orderId].status =
                  IF calls[u].allDone THEN "ready" ELSE "preparing"]
  /\ calls' = [calls EXCEPT ![u] = Idle]
  /\ UNCHANGED << tasks, taskDurations, clock, completedWrites, pushVars, pullVars, etaVars, instVars, localVars, stepVars >>

NextConc ==
  \/ \E items \in ItemLists : createOrder(items)
  \/ \E u \in Users, taskId \in 1 .. Len(tasks) + 1 : StartTaskRead(u, taskId)
  \/ \E u \in Users : StartTaskUpdate(u)
  \/ \E u \in Users, taskId \in 1 .. Len(tasks) + 1 : CompleteTaskRead(u, taskId)
  \/ \E u \in Users : CompleteTaskSubtasks(u)
  \/ \E u \in Users : CompleteTaskDuration(u)
  \/ \E u \in Users : CompleteTaskUpdate(u)
  \/ \E u \in Users : ActivateRead(u)
  \/ \E u \in Users : ActivateRow(u)
  \/ \E u \in Users : ActivateUpdate(u)
  \/ \E u \in Users : CheckRead(u)
  \/ \E u \in Users : CheckUpdate(u)

\* --------------------------------- createOrder, one pass of instantiation a step

\* No createOrder is running.
CreateIdle == [pc |-> "idle", orderId |-> NULL, line |-> NULL, base |-> NULL]

\* The orders created pass by pass: a drink and a pizza, a pizza and a drink.
InstItemLists == { << "drink", "pizza" >>, << "pizza", "drink" >> }

\* Where createOrder stands after the order line k: at the first pass of the
\* next line that has a workflow template, or at the order's update.
RECURSIVE NextLine(_, _)
NextLine(items, k) ==
  IF k > Len(items) THEN [pc |-> "status", line |-> NULL]
  ELSE IF items[k] = "none" THEN NextLine(items, k + 1)
  ELSE [pc |-> "first", line |-> k]

\* createOrder: the transaction that creates the order and its items.
CreateOrderBegin(items) ==
  /\ creating.pc = "idle"
  /\ Len(tasks) + TaskCount(items) <= MaxInstTasks
  /\ orders' = Append(orders, [status |-> "new", items |-> items])
  /\ creating' = [CreateIdle EXCEPT !.orderId = Len(orders) + 1,
                                    !.pc = NextLine(items, 1).pc,
                                    !.line = NextLine(items, 1).line]
  /\ UNCHANGED << tasks, taskDurations, clock, otherVars, etaVars, localVars, stepVars >>

\* instantiateWorkflow, first pass: the instances of the line, 'pending', with
\* empty dependsOn.
InstantiateFirstPass ==
  /\ creating.pc = "first"
  /\ LET o == creating.orderId
         defs == TemplateDefs[orders[o].items[creating.line]]
     IN  tasks' = FirstPass(tasks, o, creating.line, defs)
  /\ creating' = [creating EXCEPT !.pc = "second", !.base = Len(tasks)]
  /\ UNCHANGED << orders, taskDurations, clock, otherVars, etaVars, localVars, stepVars >>

\* instantiateWorkflow, second pass: dependsOn of the line's instances.
InstantiateSecondPass ==
  /\ creating.pc = "second"
  /\ LET defs == TemplateDefs[orders[creating.orderId].items[creating.line]]
     IN  tasks' = SecondPass(tasks, creating.base, defs)
  /\ creating' = [creating EXCEPT !.pc = "activate"]
  /\ UNCHANGED << orders, taskDurations, clock, otherVars, etaVars, localVars, stepVars >>

\* instantiateWorkflow's call of activateReadyTasks, then the next line.
InstantiateActivate ==
  /\ creating.pc = "activate"
  /\ tasks' = ActivateReadyTasks(tasks, creating.orderId)
  /\ LET next == NextLine(orders[creating.orderId].items, creating.line + 1)
     IN  creating' = [creating EXCEPT !.pc = next.pc, !.line = next.line, !.base = NULL]
  /\ UNCHANGED << orders, taskDurations, clock, otherVars, etaVars, localVars, stepVars >>

\* createOrder: the order's update to 'preparing'.
CreateOrderFinish ==
  /\ creating.pc = "status"
  /\ orders' = [orders EXCEPT ![creating.orderId].status = "preparing"]
  /\ creating' = CreateIdle
  /\ UNCHANGED << tasks, taskDurations, clock, otherVars, etaVars, localVars, stepVars >>

\* The staff member at work while the order is created.
InstUsers == {"u1"}

NextInst ==
  \/ \E items \in InstItemLists : CreateOrderBegin(items)
  \/ InstantiateFirstPass
  \/ InstantiateSecondPass
  \/ InstantiateActivate
  \/ CreateOrderFinish
  \/ \E taskId \in DOMAIN tasks, userId \in InstUsers : startTask(taskId, userId)
  \/ \E taskId \in DOMAIN tasks, userId \in InstUsers : completeTask(taskId, userId)

\* ---------------------------------------------------------- event queue

\* getNextSequence()
NextSequence(counter) == counter + 1

\* The ids of the events with a status, sorted by sequence
\* (where('status').equals(status).sortBy('sequence')).
RECURSIVE SortBySequence(_, _)
SortBySequence(evs, ids) ==
  IF ids = {} THEN << >>
  ELSE LET first == CHOOSE i \in ids : \A j \in ids : evs[i].sequence <= evs[j].sequence
       IN  << first >> \o SortBySequence(evs, ids \ {first})

EventsWithStatus(evs, status) ==
  SortBySequence(evs, { i \in DOMAIN evs : evs[i].status = status })

getFailedEvents(evs) == EventsWithStatus(evs, "failed")

getPendingEvents(evs) == EventsWithStatus(evs, "pending")

\* An update that puts a failed event back to 'pending'.
markEventPending(ev, error) ==
  [ev EXCEPT !.status = "pending", !.lastError = error, !.retryCount = ev.retryCount + 1]

\* markEventFailed's update. The error text is kept by its kind: "client" for
\* the text of a 4xx answer, "retryable" for that of a 5xx answer or of a
\* request that threw.
markEventFailed(ev, error) ==
  [ev EXCEPT !.status = IF ev.retryCount >= RetryThreshold THEN "conflict" ELSE "failed",
             !.lastError = error,
             !.retryCount = ev.retryCount + 1]

\* The status pushSingleEvent leaves the event with, by the answer to its POST:
\* 2xx, 409, another 4xx, 5xx, or no answer (network error, timeout).
AfterResponse(ev, response) ==
  CASE response = "ok" -> [ev EXCEPT !.status = "synced"]
    [] response = "conflict" -> [ev EXCEPT !.status = "synced"]
    [] response = "client_error" -> markEventFailed(ev, "client")
    [] response = "server_error" -> markEventFailed(ev, "retryable")
    [] OTHER -> markEventFailed(ev, "retryable")

Responses == {"ok", "conflict", "client_error", "server_error", "lost", "network_error"}

\* No pushEvents is running.
PushIdle == [pc |-> "idle", list |-> << >>, inflight |-> NULL, sentOnline |-> FALSE]

\* enqueueEvent(tenantId, userId, type, entityType, entityId, payload): what it
\* does to the queue.
enqueueEvent(entityType, entityId) ==
  /\ Len(syncEvents) < MaxEvents
  /\ sequenceCounter' = NextSequence(sequenceCounter)
  /\ syncEvents' = Append(syncEvents,
       [sequence |-> NextSequence(sequenceCounter), status |-> "pending", retryCount |-> 0,
        lastError |-> "none", entityType |-> entityType, entityId |-> entityId])

\* ------------------------------------------ offline actions on the local tables

\* db.orders, db.tasks, and the type and payload of each event of db.syncEvents.
LocalDbEmpty == [orders |-> << >>, tasks |-> << >>, payloads |-> << >>]

\* generateLocalId() for the k-th row of a local table: a UUID made on the
\* client, which no row of the server has as its id.
LocalId(k) == 0 - k

\* The place in the local table of the row with a local id.
LocalIndex(id) == 0 - id

\* db.stations ... .filter(accepts the type, active).first(), then station?.id
LocalStationByType(type) ==
  LET accepting == { i \in DOMAIN Stations : type \in Stations[i].taskTypes }
  IN  IF accepting = {} THEN NULL
      ELSE Stations[CHOOSE i \in accepting : \A j \in accepting : i <= j].id

\* The db.subtasks rows instantiateWorkflowLocally adds for a task definition.
NewLocalSubtasks(subDefs) ==
  [k \in DOMAIN subDefs |->
     [subtaskDefId |-> subDefs[k].id, isCompleted |-> FALSE,
      completedAt |-> NULL, completedById |-> NoUser, _syncStatus |-> "local"]]

\* The db.tasks row instantiateWorkflowLocally adds for a task definition.
NewLocalTask(orderId, orderItemId, def) ==
  [orderId |-> orderId, orderItemId |-> orderItemId, taskDefId |-> def.id,
   stationId |-> LocalStationByType(def.station_type), status |-> "pending",
   dependsOn |-> << >>, estimatedMinutes |-> def.estimated_minutes,
   assignedToId |-> NoUser, startedAt |-> NULL, completedAt |-> NULL,
   completedById |-> NoUser, subtasks |-> NewLocalSubtasks(def.subtasks),
   _syncStatus |-> "local"]

\* The loop that ends an item of instantiateWorkflowLocally: every task of the
\* order with empty dependsOn and status 'pending' becomes 'queued'.
ActivateLocally(ts, orderId) ==
  [id \in DOMAIN ts |->
     IF ts[id].orderId = orderId /\ Len(ts[id].dependsOn) = 0 /\ ts[id].status = "pending"
     THEN [ts[id] EXCEPT !.status = "queued"]
     ELSE ts[id]]

\* instantiateWorkflowLocally from the k-th item on: for an item with a
\* workflow template the tasks, their dependsOn, and the activation.
RECURSIVE InstantiateWorkflowLocally(_, _, _, _)
InstantiateWorkflowLocally(ts, orderId, items, k) ==
  IF k > Len(items) THEN ts
  ELSE IF items[k] = "none" THEN InstantiateWorkflowLocally(ts, orderId, items, k + 1)
  ELSE LET defs == TemplateDefs[items[k]]
           created == ts \o [i \in DOMAIN defs |-> NewLocalTask(orderId, k, defs[i])]
           resolved == SecondPass(created, Len(ts), defs)
       IN  InstantiateWorkflowLocally(ActivateLocally(resolved, orderId), orderId, items, k + 1)

\* createOrderOffline for an order without a delivery address: the tables
\* after it.
CreateOrderOffline(db, items) ==
  LET orderId == Len(db.orders) + 1
  IN  [db EXCEPT
         !.orders = Append(@, [status |-> "preparing", items |-> items,
                               _syncStatus |-> "local", _serverId |-> NULL]),
         !.tasks = InstantiateWorkflowLocally(@, orderId, items, 1)]

\* startTaskOffline: db.tasks.update(taskId, ...), nothing on a key the table
\* does not hold.
StartTaskOffline(db, taskId, userId, now) ==
  IF taskId \notin DOMAIN db.tasks THEN db
  ELSE [db EXCEPT !.tasks[taskId] =
          [@ EXCEPT !.status = "in_progress", !.assignedToId = userId,
                    !.startedAt = now, !._syncStatus = "modified"]]

\* completeTaskOffline's loop over the order's tasks as read after the task's
\* own update: a 'pending' task that depends on taskId, all of whose
\* dependencies are 'done' in what was read, becomes 'queued'.
ActivateDependents(ts, taskId) ==
  [id \in DOMAIN ts |->
     IF /\ ts[id].orderId = ts[taskId].orderId
        /\ ts[id].status = "pending"
        /\ taskId \in Range(ts[id].dependsOn)
        /\ \A depId \in Range(ts[id].dependsOn) :
             /\ depId \in DOMAIN ts
             /\ ts[depId].orderId = ts[taskId].orderId
             /\ ts[depId].status = "done"
     THEN [ts[id] EXCEPT !.status = "queued", !._syncStatus = "modified"]
     ELSE ts[id]]

\* completeTaskOffline for a task the table holds: the tables after it.
CompleteTaskOffline(db, taskId, userId, now) ==
  LET task == db.tasks[taskId]
      ts1 == [db.tasks EXCEPT ![taskId] =
                [@ EXCEPT !.status = "done", !.completedAt = now, !.completedById = userId,
                          !.startedAt = IF task.startedAt # NULL THEN task.startedAt ELSE now,
                          !._syncStatus = "modified"]]
      ts2 == [ts1 EXCEPT ![taskId].subtasks =
                [k \in DOMAIN @ |->
                   [@[k] EXCEPT !.isCompleted = TRUE, !.completedAt = now,
                                !.completedById = userId, !._syncStatus = "modified"]]]
      ts3 == ActivateDependents(ts2, taskId)
  IN  [db EXCEPT
         !.orders = IF AllDone(ts3, task.orderId)
                    THEN [@ EXCEPT ![task.orderId] =
                            [@ EXCEPT !.status = "ready", !._syncStatus = "modified"]]
                    ELSE @,
         !.tasks = ts3]

\* completeSubtaskOffline: db.subtasks.update(subtaskId, ...), nothing on a key
\* the table does not hold; subtaskId is the subtask's place among the task's.
CompleteSubtaskOffline(db, taskId, subtaskId, userId, now) ==
  IF taskId \notin DOMAIN db.tasks \/ subtaskId \notin DOMAIN db.tasks[taskId].subtasks THEN db
  ELSE [db EXCEPT !.tasks[taskId].subtasks[subtaskId] =
          [@ EXCEPT !.isCompleted = TRUE, !.completedAt = now, !.completedById = userId,
                    !._syncStatus = "modified"]]

\* What the offline actions leave alone.
offlineUnchanged ==
  << engineVars, calls, completedWrites, online, isSyncing, push, applied, pullVars, etaVars, instVars, stepVars >>

\* The type and payload enqueueEvent stores with an event, and its userId.
Payload(type, userId, items, taskId, subtaskId) ==
  [type |-> type, userId |-> userId, items |-> items, taskId |-> taskId, subtaskId |-> subtaskId]

\* The staff member who takes the orders.
OrderTaker == "u1"

\* createOrderOffline on the local tables, and its event.
createOrderLocally(items) ==
  /\ Len(localDb.tasks) + TaskCount(items) <= MaxTasks
  /\ localDb' = [CreateOrderOffline(localDb, items) EXCEPT
                   !.payloads = Append(@, Payload("order.create", OrderTaker, items, NULL, NULL))]
  /\ enqueueEvent("order", LocalId(Len(localDb.orders) + 1))
  /\ UNCHANGED offlineUnchanged

\* startTaskOffline on the local tables, and its event.
startTaskLocally(taskId, userId) ==
  /\ localDb' = [StartTaskOffline(localDb, taskId, userId, clock) EXCEPT
                   !.payloads = Append(@, Payload("task.start", userId, << >>, LocalId(taskId), NULL))]
  /\ enqueueEvent("task", LocalId(taskId))
  /\ UNCHANGED offlineUnchanged

\* completeTaskOffline on the local tables, and its event; it throws, before
\* any write, when the table does not hold the task.
completeTaskLocally(taskId, userId) ==
  /\ taskId \in DOMAIN localDb.tasks
  /\ localDb' = [CompleteTaskOffline(localDb, taskId, userId, clock) EXCEPT
                   !.payloads = Append(@, Payload("task.complete", userId, << >>, LocalId(taskId), NULL))]
  /\ enqueueEvent("task", LocalId(taskId))
  /\ UNCHANGED offlineUnchanged

\* completeSubtaskOffline on the local tables, and its event; the id of a
\* subtask is here its task's with the subtask's place.
completeSubtaskLocally(taskId, subtaskId, userId) ==
  /\ localDb' = [CompleteSubtaskOffline(localDb, taskId, subtaskId, userId, clock) EXCEPT
                   !.payloads = Append(@, Payload("subtask.complete", userId, << >>,
                                                  LocalId(taskId), subtaskId))]
  /\ enqueueEvent("subtask", LocalId(taskId))
  /\ UNCHANGED offlineUnchanged

\* The task ids the cook's screen can act on.
LocalTaskIds == 1 .. MaxTasks

NextLocal ==
  \/ \E items \in ItemLists : createOrderLocally(items)
  \/ \E taskId \in LocalTaskIds, userId \in Users : startTaskLocally(taskId, userId)
  \/ \E taskId \in LocalTaskIds, userId \in Users : completeTaskLocally(taskId, userId)
  \/ \E taskId \in LocalTaskIds, userId \in Users : completeSubtaskLocally(taskId, 1, userId)
  \/ Tick

\* The task table after the server's startTask on it.
ServerStart(ts, taskId, userId, now) ==
  [ts EXCEPT ![taskId] = StartUpdate(@, userId, now)]

\* The task table after the server's completeTask on it.
ServerComplete(ts, taskId, userId, now) ==
  ActivateReadyTasks(
    [ts EXCEPT ![taskId] =
       CompleteUpdate([@ EXCEPT !.subtasks = CompleteSubtasks(@, userId, now)],
                      ts[taskId], userId, now)],
    ts[taskId].orderId)

\* The event pushEvents sends next: the first 'pending' one, and the first
\* 'failed' one when none is pending.
NextToPush ==
  LET pend == getPendingEvents(syncEvents)
      failed == getFailedEvents(syncEvents)
  IN  IF pend # << >> THEN Head(pend)
      ELSE IF failed # << >> THEN Head(failed)
      ELSE NULL

\* What POST /api/orders and POST /api/tasks answer to the payload of an
\* event: 2xx, or the 400 of a handler that threw.
ServerAccepts(ts, pl) ==
  CASE pl.type = "order.create" -> TRUE
    [] pl.type = "task.start" -> startTaskResult(ts, pl.taskId) = "ok"
    [] pl.type = "task.complete" -> completeTaskResult(ts, pl.taskId) = "ok"
    [] pl.type = "subtask.complete" ->
         pl.taskId \in DOMAIN ts /\ pl.subtaskId \in DOMAIN ts[pl.taskId].subtasks

\* The server's task rows after the request of an event it accepts.
ServerTasksAfter(ts, os, pl, now) ==
  CASE pl.type = "order.create" -> InstantiateItems(ts, Len(os) + 1, pl.items, 1)
    [] pl.type = "task.start" -> ServerStart(ts, pl.taskId, pl.userId, now)
    [] pl.type = "task.complete" -> ServerComplete(ts, pl.taskId, pl.userId, now)
    [] pl.type = "subtask.complete" ->
         IF ts[pl.taskId].subtasks[pl.subtaskId].isCompleted THEN ts
         ELSE [ts EXCEPT ![pl.taskId].subtasks[pl.subtaskId] =
                 [@ EXCEPT !.isCompleted = TRUE, !.completedAt = now,
                           !.completedById = pl.userId]]

\* The server's order rows after the request of an event it accepts.
ServerOrdersAfter(ts, os, pl, now) ==
  CASE pl.type = "order.create" -> Append(os, [status |-> "preparing", items |-> pl.items])
    [] pl.type = "task.complete" ->
         CheckOrderCompletion(ServerComplete(ts, pl.taskId, pl.userId, now), os,
                              ts[pl.taskId].orderId)
    [] OTHER -> os

\* reconcileEntity on the local tables: the order of an order event takes the
\* server's id and status and becomes 'synced'; nothing for a task or subtask.
ReconcileLocal(db, ev, serverOrderId, serverStatus) ==
  IF ev.entityType = "order" /\ LocalIndex(ev.entityId) \in DOMAIN db.orders
  THEN [db EXCEPT !.orders[LocalIndex(ev.entityId)] =
          [@ EXCEPT !._syncStatus = "synced", !._serverId = serverOrderId,
                    !.status = serverStatus]]
  ELSE db

\* pushSingleEvent for the next event while online, with the server's handling
\* of the request: on 2xx the event is 'synced' and reconcileEntity runs, on
\* 400 markEventFailed; when the answer does not arrive (timeout, network
\* error after the server handled the request) markEventFailed as well.
pushSingleEventToServer(arrives) ==
  /\ online
  /\ NextToPush # NULL
  /\ LET e == NextToPush
         ev == syncEvents[e]
         pl == localDb.payloads[e]
         ok == ServerAccepts(tasks, pl)
     IN  /\ pl.type = "order.create" => Len(tasks) + TaskCount(pl.items) <= MaxServerTasks
         /\ syncEvents' = [syncEvents EXCEPT ![e] =
               IF ~arrives THEN markEventFailed(@, "retryable")
               ELSE IF ok THEN [@ EXCEPT !.status = "synced"]
               ELSE markEventFailed(@, "client")]
         /\ tasks' = IF ok THEN ServerTasksAfter(tasks, orders, pl, clock) ELSE tasks
         /\ orders' = IF ok THEN ServerOrdersAfter(tasks, orders, pl, clock) ELSE orders
         /\ taskDurations' =
               IF ok /\ pl.type = "task.complete"
               THEN taskDurations (+) SetToBag(DurationRows(pl.taskId, tasks[pl.taskId], clock))
               ELSE taskDurations
         /\ localDb' = IF arrives /\ ok /\ pl.type = "order.create"
                       THEN ReconcileLocal(localDb, ev, Len(orders) + 1, "preparing")
                       ELSE localDb
  /\ UNCHANGED << clock, sequenceCounter, calls, completedWrites, online, isSyncing, push,
                  applied, pullVars, etaVars, instVars, stepVars >>

\* The offline actions of one cook and the push of their events to the server.
ReplayUsers == {"u1"}

NextReplay ==
  \/ \E items \in ItemLists : createOrderLocally(items)
  \/ \E taskId \in LocalTaskIds, userId \in ReplayUsers : startTaskLocally(taskId, userId)
  \/ \E taskId \in LocalTaskIds, userId \in ReplayUsers : completeTaskLocally(taskId, userId)
  \/ \E taskId \in LocalTaskIds, userId \in ReplayUsers : completeSubtaskLocally(taskId, 1, userId)
  \/ \E arrives \in BOOLEAN : pushSingleEventToServer(arrives)
  \/ Tick

\* ------------------------------------------------- local mirror and pull

Kinds == {"orders", "tasks", "deliveries"}

\* The local tables followed: those, the subtasks and the inventory items.
\* Task e has subtask e.
Tables == Kinds \cup {"subtasks", "inventoryItems"}

\* Order e has task e and delivery e.
EntityIds == {"e1"}

\* A key the local table does not hold.
Absent == [_syncStatus |-> "absent", rev |-> 0, status |-> ""]

\* The record a pull puts: the server's revision, _syncStatus 'synced'.
Pulled(rev) == [_syncStatus |-> "synced", rev |-> rev, status |-> ""]

\* db.<table>.update(key, changes): nothing on a key the table does not hold.
LocalUpdate(existing, status) ==
  IF existing = Absent THEN existing
  ELSE [existing EXCEPT !._syncStatus = "modified", !.status = status]

\* The test that makes pullActiveOrders pass over a record.
SkipOrder(existing) == existing # Absent /\ existing._syncStatus = "local"

\* The test that makes pullActiveTasks pass over a record.
SkipTask(existing) == existing # Absent /\ existing._syncStatus # "synced"

\* The test that makes pullActiveDeliveries pass over a record.
SkipDelivery(existing) == existing # Absent /\ existing._syncStatus # "synced"

\* One turn of a pull loop, for the record the server returned with revision rev.
PullOne(existing, rev, skip) == IF skip THEN existing ELSE Pulled(rev)

\* The server's copy of a record changes (another client, the engine).
serverChange(kind, id) ==
  /\ server[kind][id] < MaxVersion
  /\ server' = [server EXCEPT ![kind][id] = @ + 1]
  /\ UNCHANGED << mirror, engineVars, concVars, pushVars, etaVars, instVars, localVars, stepVars >>

\* What the local actions and the pulls leave alone.
localUnchanged == << online, isSyncing, push, applied, server, engineVars, concVars, etaVars, instVars, localVars, stepVars >>

\* createOrderOffline: the order and its task, both 'local', and the event.
createOrderOffline(id) ==
  /\ mirror["orders"][id] = Absent /\ mirror["tasks"][id] = Absent
  /\ mirror' = [mirror EXCEPT
       !["orders"][id] = [_syncStatus |-> "local", rev |-> 0, status |-> "new"],
       !["tasks"][id] = [_syncStatus |-> "local", rev |-> 0, status |-> "queued"]]
  /\ enqueueEvent("order", id)
  /\ UNCHANGED localUnchanged

\* startTaskOffline: db.tasks.update, whether or not the table holds the task,
\* and the event.
startTaskOffline(id) ==
  /\ mirror' = [mirror EXCEPT !["tasks"][id] = LocalUpdate(@, "in_progress")]
  /\ enqueueEvent("task", id)
  /\ UNCHANGED localUnchanged

\* completeTaskOffline throws when the table does not hold the task; otherwise
\* the task, its order once all its tasks are done, and the event.
completeTaskOffline(id) ==
  /\ mirror["tasks"][id] # Absent
  /\ mirror' = [mirror EXCEPT !["tasks"][id] = LocalUpdate(@, "done"),
                              !["orders"][id] = LocalUpdate(@, "ready")]
  /\ enqueueEvent("task", id)
  /\ UNCHANGED localUnchanged

\* assignDeliveryOffline: db.deliveries.update, whether or not the table holds
\* the delivery, and the event.
assignDeliveryOffline(id) ==
  /\ mirror' = [mirror EXCEPT !["deliveries"][id] = LocalUpdate(@, "assigned")]
  /\ enqueueEvent("delivery", id)
  /\ UNCHANGED localUnchanged

\* pickupDeliveryOffline returns at once, with no event, when the table does
\* not hold the delivery.
pickupDeliveryOffline(id) ==
  /\ mirror["deliveries"][id] # Absent
  /\ mirror' = [mirror EXCEPT !["deliveries"][id] = LocalUpdate(@, "picked_up"),
                              !["orders"][id] = LocalUpdate(@, "delivering")]
  /\ enqueueEvent("delivery", id)
  /\ UNCHANGED localUnchanged

\* deliverDeliveryOffline returns at once, with no event, when the table does
\* not hold the delivery.
deliverDeliveryOffline(id) ==
  /\ mirror["deliveries"][id] # Absent
  /\ mirror' = [mirror EXCEPT !["deliveries"][id] = LocalUpdate(@, "delivered"),
                              !["orders"][id] = LocalUpdate(@, "delivered")]
  /\ enqueueEvent("delivery", id)
  /\ UNCHANGED localUnchanged

\* completeSubtaskOffline: db.subtasks.update, whether or not the table holds
\* the subtask, and the event.
completeSubtaskOffline(id) ==
  /\ mirror' = [mirror EXCEPT !["subtasks"][id] = LocalUpdate(@, "completed")]
  /\ enqueueEvent("subtask", id)
  /\ UNCHANGED localUnchanged

\* adjustInventoryOffline returns at once, with no event, when the table does
\* not hold the item.
adjustInventoryOffline(id) ==
  /\ mirror["inventoryItems"][id] # Absent
  /\ mirror' = [mirror EXCEPT !["inventoryItems"][id] = LocalUpdate(@, "adjusted")]
  /\ enqueueEvent("inventory", id)
  /\ UNCHANGED localUnchanged

\* The test that makes the pull of a kind pass over a record.
Skip(kind, existing) ==
  CASE kind = "orders" -> SkipOrder(existing)
    [] kind = "tasks" -> SkipTask(existing)
    [] kind = "deliveries" -> SkipDelivery(existing)

\* The local tables after the pull of a kind: the records the server returns
\* are those it holds (revision above 0).
PullActive(m, srv, kind) ==
  [m EXCEPT ![kind] = [id \in EntityIds |->
     IF srv[kind][id] = 0 THEN @[id]
     ELSE PullOne(@[id], srv[kind][id], Skip(kind, @[id]))]]

pullActiveOrders ==
  /\ mirror' = PullActive(mirror, server, "orders")
  /\ UNCHANGED << server, engineVars, concVars, pushVars, etaVars, instVars, localVars, stepVars >>

\* pullActiveTasks: each task the server returns and the loop does not pass
\* over is put, and with it each of its subtasks, whatever the local subtask.
PullActiveTasks(m, srv) ==
  [PullActive(m, srv, "tasks") EXCEPT !["subtasks"] = [id \in EntityIds |->
     IF srv["tasks"][id] = 0 \/ Skip("tasks", m["tasks"][id]) \/ srv["subtasks"][id] = 0
     THEN @[id]
     ELSE Pulled(srv["subtasks"][id])]]

pullActiveTasks ==
  /\ mirror' = PullActiveTasks(mirror, server)
  /\ UNCHANGED << server, engineVars, concVars, pushVars, etaVars, instVars, localVars, stepVars >>

pullActiveDeliveries ==
  /\ mirror' = PullActive(mirror, server, "deliveries")
  /\ UNCHANGED << server, engineVars, concVars, pushVars, etaVars, instVars, localVars, stepVars >>

\* pullCollection('/api/inventory', 'inventoryItems', ...): bulkPut of every
\* item the server returns, 'synced'; nothing when it returns none.
pullInventoryItems ==
  /\ mirror' = [mirror EXCEPT !["inventoryItems"] = [id \in EntityIds |->
       IF server["inventoryItems"][id] = 0 THEN @[id]
       ELSE Pulled(server["inventoryItems"][id])]]
  /\ UNCHANGED << server, engineVars, concVars, pushVars, etaVars, instVars, localVars, stepVars >>

\* The table of an entity type.
KindOf(entityType) ==
  CASE entityType = "order" -> "orders"
    [] entityType = "task" -> "tasks"
    [] entityType = "delivery" -> "deliveries"

\* pullEntityState: the pull of the entity's kind.
pullEntityState(m, srv, entityType) ==
  IF entityType = "task" THEN PullActiveTasks(m, srv)
  ELSE IF entityType \in {"order", "delivery"} THEN PullActive(m, srv, KindOf(entityType))
  ELSE m

\* reconcileEntity: the order of an order event takes the status of the
\* server's answer and becomes 'synced'; nothing for a task.
reconcileEntity(m, ev) ==
  IF ev.entityType = "order" /\ m["orders"][ev.entityId] # Absent
  THEN [m EXCEPT !["orders"][ev.entityId] =
          [@ EXCEPT !._syncStatus = "synced", !.status = ""]]
  ELSE m

NextPull ==
  \/ \E kind \in Kinds, id \in EntityIds : serverChange(kind, id)
  \/ \E id \in EntityIds : createOrderOffline(id)
  \/ \E id \in EntityIds : startTaskOffline(id)
  \/ \E id \in EntityIds : completeTaskOffline(id)
  \/ \E id \in EntityIds : assignDeliveryOffline(id)
  \/ \E id \in EntityIds : pickupDeliveryOffline(id)
  \/ \E id \in EntityIds : deliverDeliveryOffline(id)
  \/ pullActiveOrders
  \/ pullActiveTasks
  \/ pullActiveDeliveries

\* The tables pullActiveOrders and pullActiveDeliveries do not write: tasks,
\* subtasks and inventory items, their local actions and their pulls.
PulledTables == {"tasks", "subtasks", "inventoryItems"}

NextPullTables ==
  \/ \E kind \in PulledTables, id \in EntityIds : serverChange(kind, id)
  \/ \E id \in EntityIds : startTaskOffline(id)
  \/ \E id \in EntityIds : completeSubtaskOffline(id)
  \/ \E id \in EntityIds : adjustInventoryOffline(id)
  \/ pullActiveTasks
  \/ pullInventoryItems

\* ------------------------------------ pullActiveTasks, one await per step

\* No pullActiveTasks is running.
PullIdle ==
  [pc |-> "idle", data |-> [kind \in Tables |-> [id \in EntityIds |-> 0]], id |-> "none"]

\* The ids of the tasks a response holds, as a list: those the server holds.
ReturnedTasks(srv) ==
  LET ids == { id \in EntityIds : srv["tasks"][id] > 0 }
  IN  IF ids = {} THEN << >> ELSE << CHOOSE id \in ids : TRUE >>

\* What the steps of pullActiveTasks leave alone.
pullStepUnchanged ==
  << server, engineVars, concVars, pushVars, etaVars, instVars, localVars, loops, syncEngine >>

\* pullActiveTasks: the fetch and res.json(); the loop ends at once on an
\* empty list.
pullTasksFetch ==
  /\ pulling.pc = "idle"
  /\ pulling' = IF ReturnedTasks(server) = << >> THEN PullIdle
                ELSE [pc |-> "get", data |-> server, id |-> Head(ReturnedTasks(server))]
  /\ UNCHANGED << mirror, pullStepUnchanged >>

\* The loop's db.tasks.get and the test on _syncStatus: continue, which with
\* one task ends the loop, or on to the put.
pullTasksGet ==
  /\ pulling.pc = "get"
  /\ pulling' = IF Skip("tasks", mirror["tasks"][pulling.id]) THEN PullIdle
                ELSE [pulling EXCEPT !.pc = "put"]
  /\ UNCHANGED << mirror, pullStepUnchanged >>

\* The loop's db.tasks.put of the task as the response holds it, with the puts
\* of its subtasks.
pullTasksPut ==
  /\ pulling.pc = "put"
  /\ mirror' = [mirror EXCEPT
       !["tasks"][pulling.id] = Pulled(pulling.data["tasks"][pulling.id]),
       !["subtasks"][pulling.id] = IF pulling.data["subtasks"][pulling.id] = 0 THEN @
                                   ELSE Pulled(pulling.data["subtasks"][pulling.id])]
  /\ pulling' = PullIdle
  /\ UNCHANGED pullStepUnchanged

NextPullSteps ==
  \/ \E id \in EntityIds : serverChange("tasks", id)
  \/ \E id \in EntityIds : startTaskOffline(id)
  \/ \E id \in EntityIds : completeTaskOffline(id)
  \/ pullTasksFetch
  \/ pullTasksGet
  \/ pullTasksPut

\* ------------------------------------------------------------ push loop

\* The browser's online event: handleOnline calls pushEvents, which runs up to
\* its first loop unless a push is already running.
handleOnline ==
  /\ ~online
  /\ online' = TRUE
  /\ isSyncing' = TRUE
  /\ push' = IF isSyncing THEN push
             ELSE [PushIdle EXCEPT !.pc = "failed", !.list = getFailedEvents(syncEvents)]
  /\ UNCHANGED << syncEvents, sequenceCounter, applied, engineVars, concVars, pullVars, etaVars, instVars, localVars, stepVars >>

\* The browser's offline event.
handleOffline ==
  /\ online
  /\ online' = FALSE
  /\ UNCHANGED << syncEvents, sequenceCounter, isSyncing, push, applied,
                  engineVars, concVars, pullVars, etaVars, instVars, localVars, stepVars >>

\* pushEvents up to its first loop: the guard, isSyncing, getFailedEvents.
pushEventsStart ==
  /\ ~isSyncing /\ online
  /\ push.pc = "idle"
  /\ isSyncing' = TRUE
  /\ push' = [PushIdle EXCEPT !.pc = "failed", !.list = getFailedEvents(syncEvents)]
  /\ UNCHANGED << syncEvents, sequenceCounter, online, applied, engineVars, concVars, pullVars, etaVars, instVars, localVars, stepVars >>

\* The failed loop is through: getPendingEvents.
pushEventsPending ==
  /\ push.pc = "failed" /\ push.list = << >> /\ push.inflight = NULL
  /\ push' = [push EXCEPT !.pc = "pending", !.list = getPendingEvents(syncEvents)]
  /\ UNCHANGED << syncEvents, sequenceCounter, online, isSyncing, applied,
                  engineVars, concVars, pullVars, etaVars, instVars, localVars, stepVars >>

\* pushSingleEvent up to its request, for the next event of the running loop:
\* the pending loop breaks when offline; an event found synced is passed over.
pushSingleEventSend ==
  /\ push.pc \in {"failed", "pending"} /\ push.list # << >> /\ push.inflight = NULL
  /\ LET e == Head(push.list)
     IN  IF push.pc = "pending" /\ ~online
         THEN /\ push' = [push EXCEPT !.list = << >>]
              /\ syncEvents' = syncEvents
         ELSE IF syncEvents[e].status = "synced"
         THEN /\ push' = [push EXCEPT !.list = Tail(push.list)]
              /\ syncEvents' = syncEvents
         ELSE /\ push' = [push EXCEPT !.list = Tail(push.list), !.inflight = e,
                                      !.sentOnline = online]
              /\ syncEvents' = [syncEvents EXCEPT ![e].status = "syncing"]
  /\ UNCHANGED << sequenceCounter, online, isSyncing, applied, engineVars, concVars, pullVars, etaVars, instVars, localVars, stepVars >>

\* The answer to the request in flight. The server answers only a request sent
\* online and only while the client is online; "lost" is a request the server
\* applied whose answer did not arrive.
pushSingleEventResponse(response) ==
  /\ push.inflight # NULL
  /\ response \in {"ok", "conflict", "client_error", "server_error"} => push.sentOnline /\ online
  /\ response = "lost" => push.sentOnline
  /\ LET e == push.inflight
     IN  /\ syncEvents' = [syncEvents EXCEPT ![e] = AfterResponse(@, response)]
         /\ applied' = IF response \in {"ok", "lost"} THEN applied \cup {e} ELSE applied
         /\ mirror' = CASE response = "ok" -> reconcileEntity(mirror, syncEvents[e])
                         [] response = "conflict" ->
                              pullEntityState(mirror, server, syncEvents[e].entityType)
                         [] OTHER -> mirror
  /\ push' = [push EXCEPT !.inflight = NULL]
  /\ UNCHANGED << sequenceCounter, online, isSyncing, server, engineVars, concVars, etaVars, instVars, localVars, stepVars >>

\* pushEvents past its loops: the finally block.
pushEventsFinish ==
  /\ push.pc = "pending" /\ push.list = << >> /\ push.inflight = NULL
  /\ isSyncing' = FALSE
  /\ push' = PushIdle
  /\ UNCHANGED << syncEvents, sequenceCounter, online, applied, engineVars, concVars, pullVars, etaVars, instVars, localVars, stepVars >>

NextPush ==
  \/ \E id \in EntityIds : startTaskOffline(id)
  \/ handleOnline
  \/ handleOffline
  \/ pushEventsStart
  \/ pushEventsPending
  \/ pushSingleEventSend
  \/ \E response \in Responses : pushSingleEventResponse(response)
  \/ pushEventsFinish

\* ------------------------------------------- the calls of pushEvents of one page

\* Two calls of pushEvents that may be under way at once: the one made by the
\* 5-second timer, and the one made by handleOnline, forcSync or the timeout
\* of schedulePush.
PushCalls == {"timer", "other"}

\* A first line that looks at navigator.onLine alone.
PushGuardOnlineOnly(syncing, on) == on

\* pushEvents' first line: if (isSyncing || !navigator.onLine) return.
PushGuard(syncing, on) == ~syncing /\ on

\* What the steps of a call of pushEvents leave alone.
loopUnchanged ==
  << sequenceCounter, push, applied, server, engineVars, concVars, etaVars, instVars,
     localVars, pulling, syncEngine >>

\* A call of pushEvents up to its first await: it returns at the guard, or
\* sets isSyncing and reads the failed events.
pushEventsCall(c) ==
  /\ loops[c].pc = "idle"
  /\ online
  /\ isSyncing' = (isSyncing \/ PushGuard(isSyncing, online))
  /\ loops' = IF PushGuard(isSyncing, online)
              THEN [loops EXCEPT ![c] =
                      [PushIdle EXCEPT !.pc = "failed", !.list = getFailedEvents(syncEvents)]]
              ELSE loops
  /\ UNCHANGED << syncEvents, online, mirror, loopUnchanged >>

\* The browser's online event while the page runs: handleOnline and its call
\* of pushEvents.
handleOnlineCall ==
  /\ ~online
  /\ online' = TRUE
  /\ isSyncing' = (isSyncing \/ PushGuard(isSyncing, TRUE))
  /\ loops' = IF loops["other"].pc = "idle" /\ PushGuard(isSyncing, TRUE)
              THEN [loops EXCEPT !["other"] =
                      [PushIdle EXCEPT !.pc = "failed", !.list = getFailedEvents(syncEvents)]]
              ELSE loops
  /\ UNCHANGED << syncEvents, mirror, loopUnchanged >>

\* The failed loop of a call is through: getPendingEvents.
pushEventsCallPending(c) ==
  /\ loops[c].pc = "failed" /\ loops[c].list = << >> /\ loops[c].inflight = NULL
  /\ loops' = [loops EXCEPT ![c].pc = "pending", ![c].list = getPendingEvents(syncEvents)]
  /\ UNCHANGED << syncEvents, online, isSyncing, mirror, loopUnchanged >>

\* pushSingleEvent of a call up to its request.
pushSingleEventCallSend(c) ==
  /\ loops[c].pc \in {"failed", "pending"} /\ loops[c].list # << >> /\ loops[c].inflight = NULL
  /\ LET e == Head(loops[c].list)
     IN  IF loops[c].pc = "pending" /\ ~online
         THEN /\ loops' = [loops EXCEPT ![c].list = << >>]
              /\ syncEvents' = syncEvents
         ELSE IF syncEvents[e].status = "synced"
         THEN /\ loops' = [loops EXCEPT ![c].list = Tail(@)]
              /\ syncEvents' = syncEvents
         ELSE /\ loops' = [loops EXCEPT ![c].list = Tail(@), ![c].inflight = e,
                                        ![c].sentOnline = online]
              /\ syncEvents' = [syncEvents EXCEPT ![e].status = "syncing"]
  /\ UNCHANGED << online, isSyncing, mirror, loopUnchanged >>

\* The answer to the request a call has in flight.
pushSingleEventCallResponse(c, response) ==
  /\ loops[c].inflight # NULL
  /\ response = "ok" => loops[c].sentOnline /\ online
  /\ LET e == loops[c].inflight
     IN  /\ syncEvents' = [syncEvents EXCEPT ![e] = AfterResponse(@, response)]
         /\ mirror' = IF response = "ok" THEN reconcileEntity(mirror, syncEvents[e]) ELSE mirror
  /\ loops' = [loops EXCEPT ![c].inflight = NULL]
  /\ UNCHANGED << online, isSyncing, loopUnchanged >>

\* A call of pushEvents past its loops: the finally block.
pushEventsCallFinish(c) ==
  /\ loops[c].pc = "pending" /\ loops[c].list = << >> /\ loops[c].inflight = NULL
  /\ isSyncing' = FALSE
  /\ loops' = [loops EXCEPT ![c] = PushIdle]
  /\ UNCHANGED << syncEvents, online, mirror, loopUnchanged >>

\* The answers of the server looked at here: 2xx, or none.
OverlapResponses == {"ok", "network_error"}

NextOverlap ==
  \/ \E id \in EntityIds : startTaskOffline(id)
  \/ handleOffline
  \/ handleOnlineCall
  \/ \E c \in PushCalls : pushEventsCall(c)
  \/ \E c \in PushCalls : pushEventsCallPending(c)
  \/ \E c \in PushCalls : pushSingleEventCallSend(c)
  \/ \E c \in PushCalls, response \in OverlapResponses : pushSingleEventCallResponse(c, response)
  \/ \E c \in PushCalls : pushEventsCallFinish(c)

\* The page is loaded anew while pushEvents runs: the module's variables start
\* over (isSyncing false, no pushEvents running), IndexedDB and sessionStorage
\* keep theirs. The server may have applied the request that was in flight.
reload ==
  /\ push.pc # "idle"
  /\ isSyncing' = FALSE
  /\ push' = PushIdle
  /\ \E arrived \in BOOLEAN :
       applied' = IF arrived /\ push.inflight # NULL /\ push.sentOnline
                  THEN applied \cup {push.inflight} ELSE applied
  /\ UNCHANGED << syncEvents, sequenceCounter, online, pullVars, engineVars, concVars, etaVars, instVars, localVars, stepVars >>

\* The browser is closed and opened again: as for a reload, the module's
\* variables start over and IndexedDB keeps the queue; sessionStorage, which
\* lasts as long as the tab, is empty, so the sequence counter restored on
\* load is parseInt('0').
restart ==
  /\ sequenceCounter # 0
  /\ sequenceCounter' = 0
  /\ isSyncing' = FALSE
  /\ push' = PushIdle
  /\ \E arrived \in BOOLEAN :
       applied' = IF arrived /\ push.inflight # NULL /\ push.sentOnline
                  THEN applied \cup {push.inflight} ELSE applied
  /\ UNCHANGED << syncEvents, online, pullVars, engineVars, concVars, etaVars, instVars, localVars, stepVars >>

\* The answers looked at across restarts: 2xx, or none.
RestartResponses == {"ok", "network_error"}

\* The queue and the push loop across restarts of the browser.
NextRestart ==
  \/ \E id \in EntityIds : startTaskOffline(id)
  \/ restart
  \/ pushEventsStart
  \/ pushEventsPending
  \/ pushSingleEventSend
  \/ \E response \in RestartResponses : pushSingleEventResponse(response)
  \/ pushEventsFinish

\* The push loop across page loads.
NextBoot ==
  \/ NextPush
  \/ reload

\* The push loop across page loads, for a queue of at most MaxLiveEvents.
NextPushLive ==
  \/ \E id \in EntityIds : Len(syncEvents) < MaxLiveEvents /\ startTaskOffline(id)
  \/ handleOnline
  \/ handleOffline
  \/ pushEventsStart
  \/ pushEventsPending
  \/ pushSingleEventSend
  \/ \E response \in Responses : pushSingleEventResponse(response)
  \/ pushEventsFinish

NextLive ==
  \/ NextPushLive
  \/ reload

\* What keeps the push loop going: the 5 s timer starts a round whenever none
\* runs and the client is online; an awaited call of a running round returns;
\* fetchWithTimeout ends every request, by an answer, an error or its abort.
PushFairness ==
  /\ WF_vars(pushEventsStart)
  /\ WF_vars(pushEventsPending)
  /\ WF_vars(pushSingleEventSend)
  /\ WF_vars(\E response \in Responses : pushSingleEventResponse(response))
  /\ WF_vars(pushEventsFinish)

\* The client while online: the local actions on orders and tasks and the
\* assignment of a delivery, the periodic pulls, and push rounds whose requests
\* the server answers with 2xx or 409.
SyncResponses == {"ok", "conflict"}

NextSync ==
  \/ \E kind \in Kinds, id \in EntityIds : serverChange(kind, id)
  \/ \E id \in EntityIds : createOrderOffline(id)
  \/ \E id \in EntityIds : startTaskOffline(id)
  \/ \E id \in EntityIds : completeTaskOffline(id)
  \/ \E id \in EntityIds : assignDeliveryOffline(id)
  \/ pullActiveOrders
  \/ pullActiveTasks
  \/ pullActiveDeliveries
  \/ pushEventsStart
  \/ pushEventsPending
  \/ pushSingleEventSend
  \/ \E response \in SyncResponses : pushSingleEventResponse(response)
  \/ pushEventsFinish

\* The tasks alone: the local actions on a task, changes of the server's copy,
\* the pull of the tasks, and push rounds answered with 2xx or 409.
NextTaskSync ==
  \/ \E id \in EntityIds : serverChange("tasks", id)
  \/ \E id \in EntityIds : startTaskOffline(id)
  \/ \E id \in EntityIds : completeTaskOffline(id)
  \/ pullActiveTasks
  \/ pushEventsStart
  \/ pushEventsPending
  \/ pushSingleEventSend
  \/ \E response \in SyncResponses : pushSingleEventResponse(response)
  \/ pushEventsFinish

\* The pull timer of startSyncEngine keeps firing.
PullFairness == WF_vars(pullActiveTasks)

\* ------------------------------------------------------- ETA calculator

\* Minutes are kept in units of 1/EtaScale minute, so that the division by a
\* station's capacity (1, 2 or 3) is exact.
EtaScale == 6

\* Number(task.estimatedMinutes || 5), in minutes.
EstimatedMinutes(task) == IF task.estimatedMinutes = 0 THEN 5 ELSE task.estimatedMinutes

RECURSIVE SumEstimated(_, _)
SumEstimated(ts, ids) ==
  IF ids = {} THEN 0
  ELSE LET t == CHOOSE x \in ids : TRUE
       IN  EstimatedMinutes(ts[t]) + SumEstimated(ts, ids \ {t})

\* getStationQueues: the station's task instances that are queued or in
\* progress, of every order (the order whose ETA is calculated included).
StationQueue(ts, stationId) ==
  { t \in DOMAIN ts : ts[t].stationId = stationId /\ ts[t].status \in {"queued", "in_progress"} }

StationCapacity(stationId) ==
  Stations[CHOOSE i \in DOMAIN Stations : Stations[i].id = stationId].capacity

\* queueWaitMinutes = (tasksAhead * avgTaskMinutes) / capacity, where
\* avgTaskMinutes is the queue's total of estimated minutes over its length.
QueueWait(ts, task) ==
  IF task.stationId = NULL THEN 0
  ELSE LET queue == StationQueue(ts, task.stationId)
       IN  IF queue = {} THEN 0
           ELSE (SumEstimated(ts, queue) * EtaScale) \div StationCapacity(task.stationId)

Max(a, b) == IF a >= b THEN a ELSE b

RECURSIVE SumOf(_, _, _)
\* The sum of the values f[d] of the ids of a sequence.
SumOf(f, ids, k) ==
  IF k > Len(ids) THEN 0
  ELSE (IF ids[k] \in DOMAIN f THEN f[ids[k]] ELSE 0) + SumOf(f, ids, k + 1)

RECURSIVE MaxOf(_, _, _)
\* Math.max over the values f[d] of the ids of a sequence (0 for an id f lacks).
MaxOf(f, ids, k) ==
  IF k > Len(ids) THEN 0
  ELSE Max(IF ids[k] \in DOMAIN f THEN f[ids[k]] ELSE 0, MaxOf(f, ids, k + 1))

\* How many times the id occurs in a dependsOn list: the entries adjacency
\* holds under it for the task.
Occurrences(deps, id) == Cardinality({ i \in DOMAIN deps : deps[i] = id })

\* The traversal with a task queued at the first decrement of its in-degree.
RECURSIVE KahnOrderFirstDecrement(_, _, _, _, _)
KahnOrderFirstDecrement(ts, mine, queue, inDeg, done) ==
  IF queue = << >> THEN done
  ELSE LET t == Head(queue)
           dependents == SelectSeq([i \in DOMAIN ts |-> i],
                           LAMBDA d : d \in mine /\ t \in Range(ts[d].dependsOn))
           newDeg == [d \in DOMAIN inDeg |-> inDeg[d] - Occurrences(ts[d].dependsOn, t)]
           ready == SelectSeq(dependents, LAMBDA d : inDeg[d] = Len(ts[d].dependsOn))
       IN  KahnOrderFirstDecrement(ts, mine, Tail(queue) \o ready, newDeg, Append(done, t))

\* Kahn's algorithm as calculateOrderETA runs it: the order in which the tasks
\* of the order leave the queue. inDeg is the in-degree map, done the tasks
\* that have left the queue. A dependent is decremented once for each entry of
\* its dependsOn that names the task, and queued when that brings it to 0.
RECURSIVE KahnOrder(_, _, _, _, _)
KahnOrder(ts, mine, queue, inDeg, done) ==
  IF queue = << >> THEN done
  ELSE LET t == Head(queue)
           dependents == SelectSeq([i \in DOMAIN ts |-> i],
                           LAMBDA d : d \in mine /\ t \in Range(ts[d].dependsOn))
           newDeg == [d \in DOMAIN inDeg |-> inDeg[d] - Occurrences(ts[d].dependsOn, t)]
           ready == SelectSeq(dependents, LAMBDA d : newDeg[d] = 0)
       IN  KahnOrder(ts, mine, Tail(queue) \o ready, newDeg, Append(done, t))

\* The minutes calculateOrderETA gives one task, from those of the tasks
\* before it in the order.
TaskEta(ts, t, etaMap, now) ==
  LET task == ts[t]
  IN  CASE task.status \in {"done", "cancelled"} -> 0
        [] task.status = "in_progress" ->
             Max(0, EstimatedMinutes(task) * EtaScale
                    - (IF task.startedAt # NULL THEN (now - task.startedAt) * EtaScale ELSE 0))
        [] OTHER ->
             MaxOf(etaMap, task.dependsOn, 1) + QueueWait(ts, task)
               + EstimatedMinutes(task) * EtaScale

\* taskETAMinutes, filled in the order the tasks leave the queue.
RECURSIVE TaskEtaMap(_, _, _, _, _)
TaskEtaMap(ts, order, k, etaMap, now) ==
  IF k > Len(order) THEN etaMap
  ELSE TaskEtaMap(ts, order, k + 1,
                  [t \in DOMAIN etaMap \cup {order[k]} |->
                     IF t = order[k] THEN TaskEta(ts, order[k], etaMap, now) ELSE etaMap[t]],
                  now)

\* The scan for the maximum: the first task, in insertion order, whose minutes
\* exceed every earlier one's; NULL when no task has minutes above 0.
RECURSIVE CriticalTask(_, _, _, _, _)
CriticalTask(etaMap, order, k, maxMinutes, criticalTaskId) ==
  IF k > Len(order) THEN criticalTaskId
  ELSE IF etaMap[order[k]] > maxMinutes
       THEN CriticalTask(etaMap, order, k + 1, etaMap[order[k]], order[k])
       ELSE CriticalTask(etaMap, order, k + 1, maxMinutes, criticalTaskId)

\* Math.round of a count of 1/EtaScale minutes that is not negative.
RoundMinutes(scaled) == (2 * scaled + EtaScale) \div (2 * EtaScale)

\* hasHistorical and confidence, as calculateOrderETA computes them.
Confidence(ts, mine) ==
  LET hasHistorical == \E t \in mine : ts[t].estimatedMinutes > 0
  IN  IF Cardinality(mine) < LowConfidenceBelow THEN "low"
      ELSE IF hasHistorical THEN "high" ELSE "medium"

\* The tasks of the order in the order calculateOrderETA's while loop takes them
\* from the queue, which starts with the tasks whose dependsOn is empty.
Traversal(ts, orderId) ==
  LET mine == OrderTasks(ts, orderId)
      ids == SelectSeq([i \in DOMAIN ts |-> i], LAMBDA t : t \in mine)
      inDeg == [t \in mine |-> Len(ts[t].dependsOn)]
  IN  KahnOrder(ts, mine, SelectSeq(ids, LAMBDA t : inDeg[t] = 0), inDeg, << >>)

\* What calculateOrderETA returns: totalMinutes, the tasks flagged
\* isCriticalPath, the tasks of the breakdown with their totalMinutes and
\* queueWaitMinutes, and estimatedReadyAt (also written to the order), the
\* last three in 1/EtaScale minutes.
CalculateOrderETA(ts, orderId, now) ==
  LET mine == OrderTasks(ts, orderId)
      order == Traversal(ts, orderId)
      etaMap == TaskEtaMap(ts, order, 1, << >>, now)
      criticalTaskId == CriticalTask(etaMap, order, 1, 0, NULL)
  IN  [totalMinutes |-> RoundMinutes(MaxOf(etaMap, order, 1)),
       critical |-> IF criticalTaskId = NULL THEN {} ELSE {criticalTaskId},
       breakdown |-> Range(order),
       confidence |-> Confidence(ts, mine),
       minutes |-> etaMap,
       wait |-> [t \in Range(order) |->
                   IF ts[t].status \in {"pending", "queued"} THEN QueueWait(ts, ts[t]) ELSE 0],
       estimatedReadyAt |-> now * EtaScale + MaxOf(etaMap, order, 1)]

\* calculateOrderETA(tenantId, orderId)
calculateOrderETA(orderId) ==
  /\ orderId \in DOMAIN orders
  /\ etas' = [o \in DOMAIN etas \cup {orderId} |->
                IF o = orderId THEN CalculateOrderETA(tasks, orderId, clock) ELSE etas[o]]
  /\ UNCHANGED << engineVars, otherVars, instVars, localVars, stepVars >>

\* The item lists of the orders whose ETA is calculated.
EtaItemLists == { << "margherita" >>, << "abc" >>, << "fanin" >>, << "drink", "drink" >> }

\* The database after createOrder returned for one order.
EtaEngineInit ==
  \E items \in EtaItemLists :
    /\ orders = << [status |-> "preparing", items |-> items] >>
    /\ tasks = InstantiateItems(<< >>, 1, items, 1)
    /\ taskDurations = EmptyBag
    /\ clock = 1

\* The staff member at work while ETAs are calculated (the calculator reads
\* no user).
EtaUsers == {"u1"}

NextEta ==
  \/ \E orderId \in DOMAIN orders : calculateOrderETA(orderId)
  \/ \E taskId \in DOMAIN tasks, userId \in EtaUsers : startTask(taskId, userId)
  \/ \E taskId \in DOMAIN tasks, userId \in EtaUsers : completeTask(taskId, userId)
  \/ Tick

\* The dependsOn lists the traversal is run on: every list of up to MaxDeps
\* ids, of the tasks of the order and of UnknownTask, which no task has.
MaxDeps == 2

GraphTasks == InstantiateItems(<< >>, 1, << "abc" >>, 1)

UnknownTask == Len(GraphTasks) + 1

DependsOnLists ==
  UNION { [1 .. n -> DOMAIN GraphTasks \cup {UnknownTask}] : n \in 0 .. MaxDeps }

\* The database with one order of three tasks, dependsOn of each any list.
GraphEngineInit ==
  \E deps \in [DOMAIN GraphTasks -> DependsOnLists] :
    /\ orders = << [status |-> "preparing", items |-> << "abc" >>] >>
    /\ tasks = [t \in DOMAIN GraphTasks |-> [GraphTasks[t] EXCEPT !.dependsOn = deps[t]]]
    /\ taskDurations = EmptyBag
    /\ clock = 1

NextGraph == \E orderId \in DOMAIN orders : calculateOrderETA(orderId)

\* ------------------------------------------- the sync engine's lifecycle

\* Calls of startSyncEngine in one page.
MaxStarts == 2

\* Before startSyncEngine: no listener, no timer. The handle of an interval is
\* the number of the call that set it; liveSync and livePull are the intervals
\* the browser still runs, initial the initial-sync timeouts not yet fired,
\* syncNeeded the onSyncNeeded listeners. stopped says that stopSyncEngine
\* returned and startSyncEngine was not called since; pushCalls and pullCalls
\* flip at each pushEvents that passes its guard and each pullServerState
\* that passes its own.
EngineOff ==
  [starts |-> 0, windowListeners |-> FALSE, syncNeeded |-> 0,
   syncInterval |-> NULL, pullInterval |-> NULL, liveSync |-> {}, livePull |-> {},
   initial |-> 0, pushTimeout |-> FALSE, stopped |-> FALSE,
   pushCalls |-> 0, pullCalls |-> 0]

engineUnchanged ==
  << sequenceCounter, applied, server, engineVars, concVars, etaVars, instVars, localVars,
     pulling, loops >>

\* pushEvents() up to its first await, as a callback of the engine calls it.
PushEventsBegins(on) == PushGuard(isSyncing, on)

CallPushEvents(on) ==
  /\ isSyncing' = (isSyncing \/ PushEventsBegins(on))
  /\ push' = IF PushEventsBegins(on)
             THEN [PushIdle EXCEPT !.pc = "failed", !.list = getFailedEvents(syncEvents)]
             ELSE push

\* pullServerState(), its pull of the active tasks.
CallPullServerState(on) ==
  mirror' = IF on THEN PullActiveTasks(mirror, server) ELSE mirror

Flip(bit, cond) == IF cond THEN 1 - bit ELSE bit

\* startSyncEngine(getAuthHeaders)
startSyncEngine ==
  /\ syncEngine.starts < MaxStarts
  /\ LET h == syncEngine.starts + 1
     IN  syncEngine' = [syncEngine EXCEPT
           !.starts = h, !.windowListeners = TRUE, !.syncNeeded = @ + 1,
           !.syncInterval = h, !.pullInterval = h,
           !.liveSync = @ \cup {h}, !.livePull = @ \cup {h},
           !.initial = IF online THEN @ + 1 ELSE @,
           !.stopped = FALSE]
  /\ UNCHANGED << syncEvents, online, isSyncing, push, mirror, engineUnchanged >>

\* stopSyncEngine()
stopSyncEngine ==
  /\ syncEngine' = [syncEngine EXCEPT
       !.windowListeners = FALSE,
       !.liveSync = @ \ {syncEngine.syncInterval},
       !.livePull = @ \ {syncEngine.pullInterval},
       !.stopped = TRUE]
  /\ UNCHANGED << syncEvents, online, isSyncing, push, mirror, engineUnchanged >>

\* The callback of a push interval the browser still runs.
syncIntervalFires(h) ==
  /\ h \in syncEngine.liveSync
  /\ CallPushEvents(online)
  /\ syncEngine' = [syncEngine EXCEPT !.pushCalls = Flip(@, PushEventsBegins(online))]
  /\ UNCHANGED << syncEvents, online, mirror, engineUnchanged >>

\* The callback of a pull interval the browser still runs.
pullIntervalFires(h) ==
  /\ h \in syncEngine.livePull
  /\ CallPullServerState(online /\ ~isSyncing)
  /\ syncEngine' = [syncEngine EXCEPT !.pullCalls = Flip(@, online /\ ~isSyncing)]
  /\ UNCHANGED << syncEvents, online, isSyncing, push, engineUnchanged >>

\* The callback of the initial-sync timeout: pushEvents(); pullServerState().
initialTimeoutFires ==
  /\ syncEngine.initial > 0
  /\ CallPushEvents(online)
  /\ CallPullServerState(online)
  /\ syncEngine' = [syncEngine EXCEPT
       !.initial = @ - 1,
       !.pushCalls = Flip(@, PushEventsBegins(online)),
       !.pullCalls = Flip(@, online)]
  /\ UNCHANGED << syncEvents, online, engineUnchanged >>

\* The callback of schedulePush's timeout: pushEvents().
pushTimeoutFires ==
  /\ syncEngine.pushTimeout
  /\ CallPushEvents(online)
  /\ syncEngine' = [syncEngine EXCEPT
       !.pushTimeout = FALSE, !.pushCalls = Flip(@, PushEventsBegins(online))]
  /\ UNCHANGED << syncEvents, online, mirror, engineUnchanged >>

\* The browser comes online: handleOnline runs when it is still a listener.
onlineEvent ==
  /\ ~online
  /\ online' = TRUE
  /\ IF syncEngine.windowListeners
     THEN /\ CallPushEvents(TRUE)
          /\ CallPullServerState(TRUE)
          /\ syncEngine' = [syncEngine EXCEPT
               !.pushCalls = Flip(@, PushEventsBegins(TRUE)), !.pullCalls = 1 - @]
     ELSE UNCHANGED << isSyncing, push, mirror, syncEngine >>
  /\ UNCHANGED << syncEvents, engineUnchanged >>

\* startTaskOffline with enqueueEvent's notifySyncEngine: every onSyncNeeded
\* listener calls schedulePush when the browser is online and no push runs.
startTaskOfflineNotify(id) ==
  /\ mirror' = [mirror EXCEPT !["tasks"][id] = LocalUpdate(@, "in_progress")]
  /\ enqueueEvent("task", id)
  /\ syncEngine' = [syncEngine EXCEPT
       !.pushTimeout = @ \/ (syncEngine.syncNeeded > 0 /\ online /\ ~isSyncing)]
  /\ UNCHANGED << online, isSyncing, push, applied, server, engineVars, concVars, etaVars,
                  instVars, localVars, pulling, loops >>

\* The answers of the server while the engine is started and stopped.
EngineResponses == {"ok"}

NextEngine ==
  \/ startSyncEngine
  \/ stopSyncEngine
  \/ \E h \in 1 .. MaxStarts : syncIntervalFires(h)
  \/ \E h \in 1 .. MaxStarts : pullIntervalFires(h)
  \/ initialTimeoutFires
  \/ pushTimeoutFires
  \/ onlineEvent
  \/ handleOffline
  \/ \E id \in EntityIds : startTaskOfflineNotify(id)
  \/ pushEventsPending
  \/ pushSingleEventSend
  \/ \E response \in EngineResponses : pushSingleEventResponse(response)
  \/ pushEventsFinish

EngineInit ==
  /\ orders = << >>
  /\ tasks = << >>
  /\ taskDurations = EmptyBag
  /\ clock = 1

ConcInit ==
  /\ calls = [u \in Users |-> Idle]
  /\ completedWrites = EmptyBag

PushInit ==
  /\ syncEvents = << >>
  /\ sequenceCounter = 0
  /\ online = TRUE
  /\ isSyncing = FALSE
  /\ push = PushIdle
  /\ applied = {}

PullInit ==
  /\ mirror = [kind \in Tables |-> [id \in EntityIds |-> Absent]]
  /\ server = [kind \in Tables |-> [id \in EntityIds |-> 0]]

EtaResultInit == etas = << >>

InstInit == creating = CreateIdle

LocalInit == localDb = LocalDbEmpty

StepInit ==
  /\ pulling = PullIdle
  /\ loops = [c \in PushCalls |-> PushIdle]
  /\ syncEngine = EngineOff

Init == EngineInit /\ ConcInit /\ PushInit /\ PullInit /\ EtaResultInit /\ InstInit /\ LocalInit /\ StepInit

Next ==
  \/ \E items \in ItemLists : createOrder(items)
  \/ \E orderId \in DOMAIN orders : activateReadyTasks(orderId)
  \/ \E taskId \in 1 .. Len(tasks) + 1, userId \in Users : startTask(taskId, userId)
  \/ \E taskId \in 1 .. Len(tasks) + 1, userId \in Users : completeTask(taskId, userId)
  \/ \E taskId \in DOMAIN tasks, subtaskId \in 1 .. 2, userId \in Users :
       completeSubtask(taskId, subtaskId, userId)
  \/ \E taskId \in DOMAIN tasks : cancelTask(taskId)
  \/ Tick

Spec == Init /\ [][Next]_vars

SpecConc == Init /\ [][NextConc]_vars

SpecPush == Init /\ [][NextPush]_vars

SpecPull == Init /\ [][NextPull]_vars

SpecSync == Init /\ [][NextSync]_vars

SpecBoot == Init /\ [][NextBoot]_vars

SpecTaskSync == Init /\ [][NextTaskSync]_vars /\ PullFairness /\ PushFairness

SpecPullTables == Init /\ [][NextPullTables]_vars

SpecPullSteps == Init /\ [][NextPullSteps]_vars

SpecOverlap == Init /\ [][NextOverlap]_vars

SpecRestart == Init /\ [][NextRestart]_vars

SpecEngine == Init /\ [][NextEngine]_vars

SpecInst == Init /\ [][NextInst]_vars

SpecLocal == Init /\ [][NextLocal]_vars

SpecReplay == Init /\ [][NextReplay]_vars

SpecLive == Init /\ [][NextLive]_vars /\ PushFairness

\* The push loop of one page load, kept going.
SpecPushLive == Init /\ [][NextPushLive]_vars /\ PushFairness

EtaInit == EtaEngineInit /\ ConcInit /\ PushInit /\ PullInit /\ EtaResultInit /\ InstInit /\ LocalInit /\ StepInit

SpecEta == EtaInit /\ [][NextEta]_vars

GraphInit == GraphEngineInit /\ ConcInit /\ PushInit /\ PullInit /\ EtaResultInit /\ InstInit /\ LocalInit /\ StepInit

\* calculateOrderETA on every dependency graph of three tasks.
SpecGraph == GraphInit /\ [][NextGraph]_vars

\* ------------------------------------------------- properties of the engine

Terminal(ts, id) == ts[id].status \in {"done", "cancelled"}

\* C3: completeTask on a task that is already 'done' returns success.
C3_CompleteDoneSucceeds ==
  \A t \in DOMAIN tasks :
    tasks[t].status = "done" => completeTaskResult(tasks, t) = "ok"

\* Duration samples recorded for a task instance.
SamplesOf(t) ==
  BagCardinality([r \in { x \in BagToSet(taskDurations) : x.taskId = t } |-> taskDurations[r]])

\* C4: concurrent completeTask calls for one task apply the side effects once:
\* at most one duration sample, and one write of completedAt/completedById.
C4_SideEffectsOnce ==
  \A t \in DOMAIN tasks :
    /\ SamplesOf(t) <= 1
    /\ CopiesIn(t, completedWrites) <= 1

\* C5: once a task's status is no longer 'pending' it is never 'pending' again.
C5_ActivationMonotone ==
  [][\A t \in DOMAIN tasks :
       tasks[t].status # "pending" => tasks'[t].status # "pending"]_vars

\* A task with dependencies has left 'pending' and reached 'done'.
C5_Witness ==
  \E t \in DOMAIN tasks : tasks[t].status = "done" /\ Len(tasks[t].dependsOn) > 0

C7_NoBlockedWithTerminalDeps ==
  \A t \in DOMAIN tasks :
    (\A d \in Range(tasks[t].dependsOn) : Terminal(tasks, d)) =>
      tasks[t].status # "pending"

\* startTask answers success exactly for a task that is 'queued'.
C8_StartGuard ==
  \A t \in 1 .. Len(tasks) + 1 :
    startTaskResult(tasks, t) = "ok" <=> (t \in DOMAIN tasks /\ tasks[t].status = "queued")

\* A successful startTask writes 'in_progress', startedAt and assignedToId of
\* that task alone; a failing one writes nothing.
C8_StartEffect ==
  \A t \in 1 .. Len(tasks) + 1, u \in Users :
    startTask(t, u) =>
      IF t \in DOMAIN tasks /\ tasks[t].status = "queued"
      THEN /\ tasks'[t].status = "in_progress"
           /\ tasks'[t].startedAt = clock
           /\ tasks'[t].assignedToId = u
           /\ \A o \in DOMAIN tasks : o # t => tasks'[o] = tasks[o]
      ELSE tasks' = tasks

\* C8: startTask succeeds only from 'queued', and then sets 'in_progress',
\* startedAt and assignedTo; from every other status it fails with an error and
\* leaves the task unchanged.
C8_StartTaskContract == []C8_StartGuard /\ [][C8_StartEffect]_vars

\* A task was started.
C8_Witness ==
  \E t \in DOMAIN tasks :
    /\ tasks[t].status = "in_progress"
    /\ tasks[t].assignedToId \in Users
    /\ tasks[t].startedAt # NULL

\* completeTask answers success from 'queued' and 'in_progress', an error from
\* 'pending' and 'cancelled'.
C9_CompleteGuard ==
  \A t \in DOMAIN tasks :
    /\ tasks[t].status \in {"queued", "in_progress"} => completeTaskResult(tasks, t) = "ok"
    /\ tasks[t].status \in {"pending", "cancelled"} => completeTaskResult(tasks, t) # "ok"

\* What a successful completeTask writes.
C9_CompleteEffect ==
  \A t \in DOMAIN tasks, u \in Users :
    (completeTask(t, u) /\ tasks[t].status \in {"queued", "in_progress"}) =>
      /\ tasks'[t].status = "done"
      /\ tasks'[t].startedAt # NULL
      /\ tasks[t].startedAt = NULL => tasks'[t].startedAt = clock
      /\ tasks[t].startedAt # NULL => tasks'[t].startedAt = tasks[t].startedAt
      /\ taskDurations' # taskDurations => tasks[t].startedAt # NULL

\* C9: completeTask is accepted from 'queued' and 'in_progress' and rejected
\* from 'pending' and 'cancelled'; on success the task is 'done' with startedAt
\* set (the completion time when it was absent), and a duration sample is
\* recorded only when startedAt was set before the call.
C9_CompleteTaskContract == []C9_CompleteGuard /\ [][C9_CompleteEffect]_vars

\* A task was completed without having been started, and no sample recorded.
C9_Witness ==
  \E t \in DOMAIN tasks :
    /\ tasks[t].status = "done"
    /\ tasks[t].assignedToId = NoUser
    /\ tasks[t].startedAt = tasks[t].completedAt
    /\ taskDurations = EmptyBag

\* An order that is 'ready' has no task in 'pending', 'queued' or 'in_progress'.
C10_ReadyHasNoOpenTask ==
  \A o \in DOMAIN orders :
    orders[o].status = "ready" =>
      \A t \in DOMAIN tasks :
        tasks[t].orderId = o => tasks[t].status \notin {"pending", "queued", "in_progress"}

\* A successful completeTask leaves the order 'ready' exactly when every task of
\* the order is then 'done' or 'cancelled'.
C10_ReadyExactlyWhenAllDone ==
  \A t \in DOMAIN tasks, u \in Users :
    (completeTask(t, u) /\ completeTaskResult(tasks, t) = "ok") =>
      LET o == tasks[t].orderId
      IN  orders'[o].status = "ready" <=>
            \A x \in DOMAIN tasks' : tasks'[x].orderId = o => Terminal(tasks', x)

C1_SequencePreserved ==
  \A lo \in DOMAIN syncEvents, hi \in DOMAIN syncEvents :
    ( /\ syncEvents[lo].sequence < syncEvents[hi].sequence
      /\ hi \in applied
      /\ lo \notin applied )
    => syncEvents[lo].status \notin {"pending", "failed"}

\* The pull of one kind of record.
PullOf(kind) ==
  CASE kind = "orders" -> pullActiveOrders
    [] kind = "tasks" -> pullActiveTasks
    [] kind = "deliveries" -> pullActiveDeliveries

\* What a pull does to the local copy of a record the server returned.
C2_PullEffect ==
  \A kind \in Kinds, id \in EntityIds :
    (PullOf(kind) /\ server[kind][id] > 0) =>
      /\ mirror[kind][id]._syncStatus \in {"modified", "local"}
           => mirror'[kind][id] = mirror[kind][id]
      /\ mirror[kind][id]._syncStatus = "synced"
           => mirror'[kind][id] = Pulled(server[kind][id])

\* C2: for orders, tasks and deliveries, a pull leaves alone a local record whose
\* _syncStatus is 'modified' or 'local' and replaces one whose _syncStatus is
\* 'synced' by the server's record.
C2_PullKeepsLocalChanges == [][C2_PullEffect]_vars

\* ------------------------------------------ properties of instantiation

\* The workflow template a task instance was created from.
TemplateOf(t) == orders[tasks[t].orderId].items[tasks[t].orderItemId]

\* A definition has no topological order: some tasks of it each depend on
\* another of them.
HasCycle(defs) ==
  \E S \in SUBSET DOMAIN defs :
    /\ S # {}
    /\ \A i \in S : \E j \in S : defs[j].id \in Range(defs[i].depends_on)

\* C11: a workflow definition whose dependencies contain a cycle is not
\* instantiated: no task instance is created for it.
C11_CyclicNotInstantiated ==
  \A t \in DOMAIN tasks : ~HasCycle(TemplateDefs[TemplateOf(t)])

\* What createOrder's instantiation leaves of an instance without a station.
C12_NoStationEffect ==
  \A items \in ItemLists :
    createOrder(items) =>
      \A t \in DOMAIN tasks' \ DOMAIN tasks :
        tasks'[t].stationId = NULL => tasks'[t].status = "pending"

\* C12: an instance created with a null station, no active station accepting
\* its type, is still 'pending' when instantiation returns, dependencies or not.
C12_NoStationStaysBlocked == [][C12_NoStationEffect]_vars

\* ------------------------------------------------- properties of the ETA

\* The order's tasks are as instantiation left them: none started or finished.
Fresh(orderId) ==
  \A t \in OrderTasks(tasks, orderId) :
    tasks[t].status \in {"pending", "queued"} /\ tasks[t].startedAt = NULL

\* The task instance of an order created from a task definition.
InstanceOf(orderId, defId) ==
  CHOOSE t \in OrderTasks(tasks, orderId) : tasks[t].taskDefId = defId

\* The ETA calculated for a fresh order of A (5 min), B (3 min, after A) and C
\* (4 min) is 8 minutes, and C is not flagged.
C13_AbcEffect ==
  \A o \in DOMAIN orders :
    (calculateOrderETA(o) /\ orders[o].items = << "abc" >> /\ Fresh(o)) =>
      /\ etas'[o].totalMinutes = 8
      /\ InstanceOf(o, "task_c") \notin etas'[o].critical

\* C13: for freshly instantiated A (5 min, no dependencies), B (3 min, after
\* A) and C (4 min, no dependencies), each on its own station of capacity 1
\* with no task of another order queued, calculateOrderETA returns 8 minutes
\* and does not flag C as critical path.
C13_CriticalPathEta == [][C13_AbcEffect]_vars

\* The ETA calculated for a fresh pizza chain is 14 minutes, with the final
\* task alone flagged.
C14_PizzaEffect ==
  \A o \in DOMAIN orders :
    (calculateOrderETA(o) /\ orders[o].items = << "margherita" >> /\ Fresh(o)) =>
      /\ etas'[o].totalMinutes = 14
      /\ etas'[o].critical = {InstanceOf(o, "task_finish")}

\* C14: for the seeded pizza workflow, a chain of 3, 2, 8 and 1 minutes, with
\* no other order in the station queues, calculateOrderETA returns 14 minutes
\* and flags exactly one task as critical path, the last of the chain.
C14_PizzaChainEta == [][C14_PizzaEffect]_vars

\* pushSingleEvent issues the request for event e in this step.
Sends(e) == pushSingleEventSend /\ push'.inflight = e

\* retryCount is written by markEventFailed alone, once for each request of the
\* event that failed: an event whose requests all failed has been sent
\* retryCount times before.
\* C15: an event whose deliveries keep failing is sent at most 5 times in total:
\* no request is issued for an event that has 5 failed requests behind it.
C15_SendWithinCap ==
  \A e \in DOMAIN syncEvents : Sends(e) => syncEvents[e].retryCount < RetryThreshold

C15_AtMostFiveSends == [][C15_SendWithinCap]_vars

\* A 'conflict' event is not sent again.
C15_ConflictNotSent ==
  [][\A e \in DOMAIN syncEvents : Sends(e) => syncEvents[e].status # "conflict"]_vars

\* An event reached 'conflict'.
C15_Escalated == \E e \in DOMAIN syncEvents : syncEvents[e].status = "conflict"

\* C16: an event the server answered with a 4xx other than 409 is not sent
\* again by any later push round.
C16_ClientErrorNotResent ==
  \A e \in DOMAIN syncEvents : Sends(e) => syncEvents[e].lastError # "client"

C16_ClientErrorTerminal == [][C16_ClientErrorNotResent]_vars

\* C17: when the server answers an event with 409, the event becomes 'synced'
\* and, once the handling is through, the local copy of the event's entity is
\* the server's: the revision the server holds, marked 'synced'. The entities
\* looked at are those the client once pulled from the server.
C17_ConflictEffect ==
  \A e \in DOMAIN syncEvents :
    LET kind == KindOf(syncEvents[e].entityType)
        id == syncEvents[e].entityId
    IN  ( /\ push.inflight = e
          /\ pushSingleEventResponse("conflict")
          /\ mirror[kind][id].rev > 0
          /\ server[kind][id] > 0 )
        => /\ syncEvents'[e].status = "synced"
           /\ mirror'[kind][id] = Pulled(server[kind][id])

C17_ServerWinsOnConflict == [][C17_ConflictEffect]_vars

\* C18: every request of a push round, for a failed event as for a pending
\* one, is issued while the client is online.
C18_SendOnline == \A e \in DOMAIN syncEvents : Sends(e) => online

C18_NoSendOffline == [][C18_SendOnline]_vars

\* C19: no event is lost by a failed push. An event is 'syncing' only while
\* its request is in flight, so that the outcome of the request gives it
\* another status; the queue never gets shorter; a request that failed on the
\* network or timed out leaves its event 'failed', or 'conflict' past the cap.
C19_SyncingIsInFlight ==
  \A e \in DOMAIN syncEvents : syncEvents[e].status = "syncing" => push.inflight = e

C19_NetworkFailureKeepsEvent ==
  \A e \in DOMAIN syncEvents :
    (push.inflight = e /\ pushSingleEventResponse("network_error"))
      => syncEvents'[e].status \in {"failed", "conflict"}

C19_NothingRemoved ==
  /\ Len(syncEvents') >= Len(syncEvents)
  /\ \A e \in DOMAIN syncEvents : syncEvents'[e].sequence = syncEvents[e].sequence

C19_EventNeverLost ==
  /\ []C19_SyncingIsInFlight
  /\ [][C19_NetworkFailureKeepsEvent /\ C19_NothingRemoved]_vars

\* An event left 'syncing' with no request in flight keeps that status: no
\* step of the client reads it.
C19_StuckForGood ==
  [][\A e \in DOMAIN syncEvents :
       (syncEvents[e].status = "syncing" /\ push.inflight # e)
         => syncEvents'[e].status = "syncing"]_vars

\* The step appended exactly one event, 'pending', to the queue.
OnePendingAppended ==
  /\ Len(syncEvents') = Len(syncEvents) + 1
  /\ syncEvents'[Len(syncEvents')].status = "pending"
  /\ \A e \in DOMAIN syncEvents : syncEvents'[e] = syncEvents[e]

\* The step left the record with this status, marked 'modified'.
Mutated(kind, id, status) ==
  /\ mirror'[kind][id].status = status
  /\ mirror'[kind][id]._syncStatus = "modified"

\* C20: a local action that returns has applied its change to the local
\* tables and appended exactly one 'pending' event.
C20_ActionEffect ==
  \A id \in EntityIds :
    /\ createOrderOffline(id) =>
         mirror'["orders"][id]._syncStatus = "local" /\ OnePendingAppended
    /\ startTaskOffline(id) => Mutated("tasks", id, "in_progress") /\ OnePendingAppended
    /\ completeTaskOffline(id) => Mutated("tasks", id, "done") /\ OnePendingAppended
    /\ assignDeliveryOffline(id) => Mutated("deliveries", id, "assigned") /\ OnePendingAppended
    /\ pickupDeliveryOffline(id) => Mutated("deliveries", id, "picked_up") /\ OnePendingAppended
    /\ deliverDeliveryOffline(id) => Mutated("deliveries", id, "delivered") /\ OnePendingAppended

C20_LocalActionContract == [][C20_ActionEffect]_vars

\* C21: provided connectivity returns and stays and the page is at last left
\* loaded, every enqueued event is eventually 'synced' or 'conflict',
\* whatever its status was when the page was loaded anew.
Settled(e) == e \in DOMAIN syncEvents /\ syncEvents[e].status \in {"synced", "conflict"}

C21_EverySettled ==
  \A e \in 1 .. MaxLiveEvents : [](e \in DOMAIN syncEvents => <>Settled(e))

\* From some point on no round is cut short by a page load.
StaysLoaded == <>[][reload => pushEventsFinish]_vars

C21_EventuallySynced == (<>[]online /\ StaysLoaded) => C21_EverySettled

\* The greatest of a set of numbers that are not negative, 0 for none.
Greatest(S) == IF S = {} THEN 0 ELSE CHOOSE x \in S : \A y \in S : y <= x

\* The minutes of a task, in 1/EtaScale minute, by the rule: 0 once done or
\* cancelled; what is left of the estimate while in progress; otherwise the
\* greatest of its dependencies' minutes, plus the queue wait, plus the estimate.
TaskRule(o, t, r) ==
  LET task == tasks[t]
      estimate == EstimatedMinutes(task) * EtaScale
      elapsed == IF task.startedAt = NULL THEN 0 ELSE (clock - task.startedAt) * EtaScale
  IN  CASE task.status \in {"done", "cancelled"} -> 0
        [] task.status = "in_progress" -> IF estimate > elapsed THEN estimate - elapsed ELSE 0
        [] OTHER -> Greatest({ r.minutes[d] : d \in Range(task.dependsOn) })
                      + r.wait[t] + estimate

\* The result of calculateOrderETA follows the rule for every task of the
\* order, and the order's ETA is the greatest of the tasks' minutes.
C22_EtaEffect ==
  \A o \in DOMAIN orders :
    calculateOrderETA(o) =>
      LET r == etas'[o]
      IN  /\ r.breakdown = OrderTasks(tasks, o)
          /\ \A t \in OrderTasks(tasks, o) : r.minutes[t] = TaskRule(o, t, r)
          /\ r.estimatedReadyAt =
               clock * EtaScale + Greatest({ r.minutes[t] : t \in OrderTasks(tasks, o) })
          /\ r.totalMinutes =
               RoundMinutes(Greatest({ r.minutes[t] : t \in OrderTasks(tasks, o) }))

\* Tasks of 5 and 6 minutes feeding one of 2 minutes, none waiting in a queue
\* and none worked on for a minute yet: 8 minutes.
C22_FanInEffect ==
  \A o \in DOMAIN orders :
    ( /\ calculateOrderETA(o)
      /\ orders[o].items = << "fanin" >>
      /\ \A t \in OrderTasks(tasks, o) :
           /\ tasks[t].status \in {"pending", "queued", "in_progress"}
           /\ tasks[t].status = "in_progress" => tasks[t].startedAt = clock
           /\ etas'[o].wait[t] = 0 )
    => etas'[o].totalMinutes = 8

AloneInKitchen(o) ==
  \A t \in DOMAIN tasks :
    tasks[t].status \in {"queued", "in_progress"} => tasks[t].orderId = o

\* C23: the tasks of the order itself are not counted as tasks ahead: for an
\* order alone in the kitchen every task has queue wait 0.
C23_AloneEffect ==
  \A o \in DOMAIN orders :
    (calculateOrderETA(o) /\ AloneInKitchen(o)) =>
      \A t \in OrderTasks(tasks, o) : etas'[o].wait[t] = 0

C23_OwnTasksNotAhead == [][C23_AloneEffect]_vars

\* The duration samples recorded for a task definition.
HistoricalSamples(defId) ==
  BagCardinality([r \in { x \in BagToSet(taskDurations) : x.taskDefId = defId }
                    |-> taskDurations[r]])

\* The estimate of a task instance is backed by samples.
SampleBacked(t) == HistoricalSamples(tasks[t].taskDefId) >= MinSamples

\* C24: the confidence is 'low' below 3 task instances, 'high' when every
\* instance has a sample-backed duration, 'medium' otherwise.
C24_ConfidenceEffect ==
  \A o \in DOMAIN orders :
    calculateOrderETA(o) =>
      LET mine == OrderTasks(tasks, o)
      IN  etas'[o].confidence =
            IF Cardinality(mine) < LowConfidenceBelow THEN "low"
            ELSE IF \A t \in mine : SampleBacked(t) THEN "high" ELSE "medium"

C24_ConfidenceLevels == [][C24_ConfidenceEffect]_vars

\* C25: under every interleaving of server calls on one order, a task that is
\* 'in_progress' or 'done' is never written back to 'queued'.
C25_NotBackToQueued ==
  \A t \in DOMAIN tasks :
    tasks[t].status \in {"in_progress", "done"} => tasks'[t].status # "queued"

C25_ActivationOnlyPending == [][C25_NotBackToQueued]_vars

\* The definition a task instance was created from.
DefOf(t) ==
  LET defs == TemplateDefs[TemplateOf(t)]
  IN  defs[CHOOSE i \in DOMAIN defs : defs[i].id = tasks[t].taskDefId]

\* The instances created, for the same order line, from the task definitions
\* a task's definition depends on.
DefDependencies(t) ==
  { d \in DOMAIN tasks : /\ tasks[d].orderId = tasks[t].orderId
                         /\ tasks[d].orderItemId = tasks[t].orderItemId
                         /\ tasks[d].taskDefId \in Range(DefOf(t).depends_on) }

\* C26: a task whose definition has dependencies is not 'queued' before the
\* instances of those dependencies are done, also when activateReadyTasks
\* runs for the order between the two passes of instantiateWorkflow.
C26_NotQueuedBeforeDependencies ==
  \A t \in DOMAIN tasks :
    (tasks[t].status = "queued" /\ Len(DefOf(t).depends_on) > 0) =>
      \A d \in DefDependencies(t) : tasks[d].status = "done"

\* C27: of two concurrent startTask calls on one 'queued' task exactly one
\* succeeds: a task that a call has set 'in_progress' is not started again,
\* so its assignedToId and startedAt stay those of that call.
C27_StartedOnce ==
  \A t \in DOMAIN tasks :
    (tasks[t].status = "in_progress" /\ tasks'[t].status = "in_progress") =>
      /\ tasks'[t].assignedToId = tasks[t].assignedToId
      /\ tasks'[t].startedAt = tasks[t].startedAt

C27_ExactlyOneStart == [][C27_StartedOnce]_vars

SubtasksKept(before, after) ==
  \A k \in DOMAIN before :
    /\ after[k].isCompleted
    /\ before[k].isCompleted =>
         /\ after[k].completedAt = before[k].completedAt
         /\ after[k].completedById = before[k].completedById

C29_ServerEffect ==
  \A taskId \in DOMAIN tasks, userId \in Users :
    (completeTask(taskId, userId) /\ completeTaskResult(tasks, taskId) = "ok") =>
      SubtasksKept(tasks[taskId].subtasks, tasks'[taskId].subtasks)

C29_ClientEffect ==
  \A taskId \in DOMAIN localDb.tasks, userId \in Users :
    (completeTaskLocally(taskId, userId) /\ localDb.tasks[taskId].status # "done") =>
      SubtasksKept(localDb.tasks[taskId].subtasks, localDb'.tasks[taskId].subtasks)

\* The server's half alone.
C29_ServerKeepsCompleted == [][C29_ServerEffect]_vars

\* C29: after a task that was not yet done is completed, by completeTask on
\* the server or by completeTaskOffline on the client, each of its subtasks is
\* completed and those that were completed before keep their completedAt and
\* completedById.
C29_ForceCompletionIdempotent == [][C29_ServerEffect /\ C29_ClientEffect]_vars

\* The statuses of a task table.
Statuses(ts) == [id \in DOMAIN ts |-> ts[id].status]

C30_StartEffect ==
  \A taskId \in DOMAIN localDb.tasks, userId \in Users :
    startTaskLocally(taskId, userId) =>
      /\ startTaskResult(localDb.tasks, taskId) = "ok"
      /\ Statuses(localDb'.tasks) = Statuses(ServerStart(localDb.tasks, taskId, userId, clock))

C30_CompleteEffect ==
  \A taskId \in DOMAIN localDb.tasks, userId \in Users :
    completeTaskLocally(taskId, userId) =>
      /\ completeTaskResult(localDb.tasks, taskId) = "ok"
      /\ Statuses(localDb'.tasks) = Statuses(ServerComplete(localDb.tasks, taskId, userId, clock))

\* C30: an offline action the client applies to a task of its tables is one the
\* server's engine accepts on equal tables, and the statuses of the task and
\* of the other tasks after it are those the engine produces.
C30_ClientAsServer == [][C30_StartEffect /\ C30_CompleteEffect]_vars

\* The same for the actions the engine accepts: on those the statuses agree.
C30_AcceptedEffect ==
  \A taskId \in DOMAIN localDb.tasks, userId \in Users :
    /\ (startTaskLocally(taskId, userId) /\ startTaskResult(localDb.tasks, taskId) = "ok") =>
         Statuses(localDb'.tasks) = Statuses(ServerStart(localDb.tasks, taskId, userId, clock))
    /\ (completeTaskLocally(taskId, userId) /\ completeTaskResult(localDb.tasks, taskId) = "ok") =>
         Statuses(localDb'.tasks) = Statuses(ServerComplete(localDb.tasks, taskId, userId, clock))

C30_SameWhenAccepted == [][C30_AcceptedEffect]_vars

\* The events of the queue that touch a task.
TaskEvents(id) ==
  { e \in DOMAIN syncEvents :
      syncEvents[e].entityType = "task" /\ syncEvents[e].entityId = id }

\* Nothing of the client's is outstanding for a task it once pulled: the queue
\* holds events for it and all are 'synced', and the server holds the task.
C31_Quiet(id) ==
  /\ online
  /\ server["tasks"][id] > 0
  /\ mirror["tasks"][id].rev > 0
  /\ TaskEvents(id) # {}
  /\ \A e \in TaskEvents(id) : syncEvents[e].status = "synced"

\* C31: once every event that touches a task is 'synced', the periodic pull
\* makes the local copy of the task equal to the server's copy, unless a new
\* event for the task is enqueued first.
C31_MirrorConverges ==
  \A id \in EntityIds :
    C31_Quiet(id) ~> (mirror["tasks"][id] = Pulled(server["tasks"][id]) \/ ~C31_Quiet(id))

\* The order.create event of the order a local task belongs to.
CreateEventOf(localTask) ==
  { c \in DOMAIN syncEvents :
      /\ syncEvents[c].entityType = "order"
      /\ syncEvents[c].entityId = LocalId(localDb.tasks[localTask].orderId) }

C32_PushEffect ==
  \A e \in DOMAIN syncEvents :
    LET pl == localDb.payloads[e]
    IN  ( /\ pushSingleEventToServer(TRUE)
          /\ NextToPush = e
          /\ syncEvents[e].entityType \in {"task", "subtask"}
          /\ LocalIndex(pl.taskId) \in DOMAIN localDb.tasks
          /\ \A c \in CreateEventOf(LocalIndex(pl.taskId)) : syncEvents[c].status = "synced" )
        => pl.taskId \in DOMAIN tasks

\* C32: once the order.create event of an order created offline is 'synced',
\* an event pushed for a task or subtask of that order names a task id the
\* server holds.
C32_ServerKnowsTaskIds == [][C32_PushEffect]_vars

C33_PullEffect ==
  \A kind \in {"subtasks", "inventoryItems"}, id \in EntityIds :
    ((pullActiveTasks \/ pullInventoryItems) /\ mirror[kind][id]._syncStatus = "modified")
      => mirror'[kind][id] = mirror[kind][id]

\* C33: a pull leaves a subtask or an inventory item that is 'modified', by
\* completeSubtaskOffline or adjustInventoryOffline, as it is.
C33_PullKeepsUnsyncedEdits == [][C33_PullEffect]_vars

\* The same for the subtasks alone.
C33_SubtaskEffect ==
  \A id \in EntityIds :
    (pullActiveTasks /\ mirror["subtasks"][id]._syncStatus = "modified")
      => mirror'["subtasks"][id] = mirror["subtasks"][id]

C33_PullKeepsSubtaskEdits == [][C33_SubtaskEffect]_vars

C34_PutEffect ==
  \A id \in EntityIds :
    (pullTasksPut /\ mirror["tasks"][id]._syncStatus = "modified")
      => mirror'["tasks"][id] = mirror["tasks"][id]

\* C34: a pull of the tasks that a local action on a task runs into, between
\* the pull's read of the local record and its write, leaves the record the
\* action made 'modified' as it is.
C34_PullKeepsLaterEdit == [][C34_PutEffect]_vars

\* The calls of pushEvents that are past the guard.
RunningCalls == { c \in PushCalls : loops[c].pc # "idle" }

\* C35: of the calls of pushEvents made in one page, by the timer, the online
\* event, forcSync or schedulePush, at most one is past the guard at a time,
\* so at most one request of an event is in flight.
C35_OnePushLoop ==
  /\ Cardinality(RunningCalls) <= 1
  /\ Cardinality({ c \in PushCalls : loops[c].inflight # NULL }) <= 1
  /\ (RunningCalls # {}) => isSyncing

\* A call returned at the guard while another had a request in flight.
C35_Witness ==
  /\ \E c \in PushCalls : loops[c].inflight # NULL
  /\ \E c \in PushCalls : ENABLED pushEventsCall(c)

\* The order.create events of the queue.
CreateEvents == { e \in DOMAIN syncEvents : localDb.payloads[e].type = "order.create" }

\* C36: an event sent again after its answer was lost is applied on the server
\* at most once: the server holds no more orders than the queue holds
\* order.create events.
C36_AppliedAtMostOnce == Len(orders) <= Cardinality(CreateEvents)

\* C37: the events of the durable queue have, in the order they were
\* enqueued, strictly increasing sequence numbers, also when the browser was
\* restarted in between: the numbers are unique and sorting by them gives the
\* order of the user's actions.
C37_SequenceIncreasing ==
  \A i, j \in DOMAIN syncEvents :
    i < j => syncEvents[i].sequence < syncEvents[j].sequence

\* The same across reloads of the page, where sessionStorage keeps the counter.
C37_IncreasingAcrossReloads ==
  \A i, j \in DOMAIN syncEvents :
    i < j => syncEvents[j].sequence > syncEvents[i].sequence

\* The changes of status of the event lifecycle.
Lifecycle ==
  { << "pending", "syncing" >>, << "failed", "syncing" >>, << "syncing", "synced" >>,
    << "syncing", "failed" >>, << "syncing", "conflict" >> }

C38_Step ==
  \A e \in DOMAIN syncEvents :
    /\ syncEvents'[e].status # syncEvents[e].status =>
         << syncEvents[e].status, syncEvents'[e].status >> \in Lifecycle
    /\ syncEvents[e].status = "synced" => syncEvents'[e] = syncEvents[e]
    /\ syncEvents'[e].retryCount >= syncEvents[e].retryCount
    /\ Sends(e) => syncEvents[e].status \in {"pending", "failed"}

\* C38: the status of an event changes only along pending -> syncing ->
\* {synced, failed, conflict} and failed -> syncing; a 'synced' event is
\* never changed or sent again; retryCount never decreases; a request is
\* issued only for an event that was 'pending' or 'failed'.
C38_EventLifecycle == [][C38_Step]_vars

\* A failed event is being sent again while another event is 'synced'.
C38_Witness ==
  /\ \E e \in DOMAIN syncEvents :
       push.inflight = e /\ syncEvents[e].status = "syncing" /\ syncEvents[e].retryCount > 0
  /\ \E e \in DOMAIN syncEvents : syncEvents[e].status = "synced"

\* ------------------------------------------- properties of the traversal

\* The tasks of the set that task t depends on, directly or through others.
RECURSIVE DependsOnWithin(_, _, _, _)
DependsOnWithin(ts, mine, t, n) ==
  LET direct == Range(ts[t].dependsOn) \cap mine
  IN  IF n = 0 THEN {}
      ELSE direct \cup UNION { DependsOnWithin(ts, mine, d, n - 1) : d \in direct }

Acyclic(ts, mine) ==
  \A t \in mine : t \notin DependsOnWithin(ts, mine, t, Cardinality(mine))

DependenciesInOrder(ts, mine) == \A t \in mine : Range(ts[t].dependsOn) \subseteq mine

Position(seq, x) == CHOOSE i \in DOMAIN seq : seq[i] = x

\* C39: on every dependency graph (cycles, dependencies on ids no task has,
\* an id listed twice) the traversal of calculateOrderETA ends, having taken
\* each task of the order from the queue at most once, and the breakdown holds
\* exactly the tasks it took; when the graph is acyclic and every dependency
\* is a task of the order, it takes every task exactly once, after all the
\* tasks it depends on.
C39_TraversalTerminates ==
  \A o \in DOMAIN etas :
    LET mine == OrderTasks(tasks, o)
        order == Traversal(tasks, o)
    IN  /\ Range(order) \subseteq mine
        /\ \A i, j \in DOMAIN order : order[i] = order[j] => i = j
        /\ etas[o].breakdown = Range(order)
        /\ DOMAIN etas[o].minutes = Range(order)
        /\ (Acyclic(tasks, mine) /\ DependenciesInOrder(tasks, mine)) =>
             /\ Range(order) = mine
             /\ \A t \in mine : \A d \in Range(tasks[t].dependsOn) :
                  Position(order, d) < Position(order, t)

\* An ETA was calculated for an acyclic order in which one task depends on the
\* two others, one of which depends on the other.
C39_Witness ==
  \E o \in DOMAIN etas :
    LET mine == OrderTasks(tasks, o)
    IN  /\ Acyclic(tasks, mine) /\ DependenciesInOrder(tasks, mine)
        /\ etas[o].breakdown = mine
        /\ \E t, d, e \in mine :
             /\ d # e
             /\ Range(tasks[t].dependsOn) = {d, e}
             /\ Range(tasks[d].dependsOn) = {e}

\* An ETA was calculated for an order with a cycle of dependencies and a
\* dependency on an id no task has: the traversal ended without those tasks.
C39_CyclicWitness ==
  \E o \in DOMAIN etas :
    LET mine == OrderTasks(tasks, o)
    IN  /\ ~Acyclic(tasks, mine)
        /\ ~DependenciesInOrder(tasks, mine)
        /\ etas[o].breakdown # mine
        /\ etas[o].breakdown # {}

\* ------------------------------------- properties of the engine's lifecycle

\* C40: from the return of stopSyncEngine until the next call of
\* startSyncEngine no pushEvents and no pullServerState begins.
C40_Step ==
  (syncEngine.stopped /\ syncEngine'.stopped) =>
    /\ syncEngine'.pushCalls = syncEngine.pushCalls
    /\ syncEngine'.pullCalls = syncEngine.pullCalls

C40_StoppedEngineIdle == [][C40_Step]_vars

\* The same for a page that called startSyncEngine once only.
C40_OnceStep == syncEngine.starts = 1 => C40_Step

C40_StoppedOnceIdle == [][C40_OnceStep]_vars

\* The same with the timers of startSyncEngine all fired or cleared before
\* stopSyncEngine: only schedulePush's timeout and the notification are left.
C40_NotifyStep ==
  (syncEngine.starts = 1 /\ syncEngine.initial = 0) => C40_Step

C40_StoppedNotifyIdle == [][C40_NotifyStep]_vars

\* The part of C40 about the intervals: once stopSyncEngine has returned the
\* browser runs no push or pull interval of an earlier startSyncEngine.
C40_NoIntervalLeft ==
  syncEngine.stopped => (syncEngine.liveSync = {} /\ syncEngine.livePull = {})
====
